---- MODULE Spec2Model ----
(***************************************************************************)
(* Model of the per-session orchestration actor (SessionDO) of the         *)
(* control plane: the prompt queue (sandbox-handler.ts), the sandbox       *)
(* socket lifecycle (SessionDO in client-handler.ts) and the create-PR     *)
(* route (internal-routes.ts).                                             *)
(*                                                                         *)
(* A Message id is its index in `messages` (creation order); 0 is null.    *)
(* A sandbox socket id is its index in `sockets`; 0 is "no socket".        *)
(***************************************************************************)
EXTENDS Naturals, Sequences, FiniteSets

VARIABLES
    messages,               \* Message rows, in creation order: [status]
    sockets,                \* sandbox-tagged sockets ever accepted: "open" | "broken" | "closed"
    sandboxWs,              \* the active sandbox socket (wsManager), 0 when none
    sandboxStatus,          \* Sandbox.status
    sandbox,                \* Sandbox row credentials: [auth_token, modal_sandbox_id], "null" when unset
    alarm,                  \* the check the lifecycle manager last armed: "none" | "inactivity" | "disconnect"
    circuitBreaker,         \* Sandbox circuit-breaker fields and the clock: [failureCount, lastFailureAt, now]
    clients,                \* client sockets: [state, closeCode, cached, mapping, received]; cached is the in-memory identity, mapping the persisted one ("none" or a user id)
    participants,           \* Participant rows, in creation order: [userId, access, refresh, expiresAt]; "null" / 0 is NULL
    scheduledAlarms,        \* pending "lifecycleAlarm" rows of the Agent scheduler (counted up to MaxScheduledAlarms)
    dispatchLog,            \* prompt commands handed to safeSend, in order
    execCompleteBroadcasts, \* per Message: execution_complete broadcasts to clients
    callbackNotified,       \* per Message: notifySlackBot initiations
    stoppedIds,             \* Messages that stop() marked failed
    sessionBranch,          \* Session.branch_name, <<>> when null
    artifacts,              \* Artifact rows, in creation order: [type, head]
    pendingPushResolvers,   \* Map entries [branch, req]: normalized branch name -> awaiting request
    pushTimers,             \* armed push timeouts, in the order they were set
    prRequests,             \* create-PR requests, in arrival order
    last                    \* what the last handler did (its observable effects)

vars == <<messages, sockets, sandboxWs, sandboxStatus, sandbox, alarm, scheduledAlarms, circuitBreaker,
         clients, participants, dispatchLog,
          execCompleteBroadcasts, callbackNotified, stoppedIds, sessionBranch,
          artifacts, pendingPushResolvers, pushTimers, prRequests, last>>

\* Bounds of the model.
MaxMessages == 2
MaxSockets == 2
MaxPrRequests == 2
MaxPrMessages == 1
MaxPrSockets == 1
MaxScheduledAlarms == 2
MaxClock == 4
MaxClients == 2
MaxParticipants == 2

\* WebSocket close codes the close handler distinguishes.
NormalClosure == 1000
GoingAway == 1001
AbnormalClosure == 1006
CloseCodes == {NormalClosure, GoingAway, AbnormalClosure}

\* Close codes the actor gives to client sockets.
AuthenticationRequired == 4001
SessionExpired == 4002

\* User ids; Owner is the user the session was initialised for.
Owner == "u1"
Users == {"u1", "u2"}


\* A JavaScript number as far as the page limit needs it: NaN or an integer.
NaN == [nan |-> TRUE, value |-> 0]

Num(n) == [nan |-> FALSE, value |-> n]

\* Effects of one handler run, reset at the start of every handler.
NoFx ==
    [op |-> "none", eventMessageId |-> 0, queueRuns |-> 0, spawning |-> FALSE, spawn |-> FALSE,
     dispatched |-> 0, sent |-> FALSE, activity |-> FALSE,
     inactivityCheck |-> FALSE, disconnectCheck |-> FALSE, snapshot |-> FALSE,
     handled |-> FALSE, alreadyStopped |-> FALSE, stopForwarded |-> FALSE,
     accepted |-> FALSE, replaced |-> FALSE, errorFrame |-> FALSE,
     spawnKind |-> "none", circuitOpen |-> FALSE, providerCalled |-> FALSE,
     clientWs |-> 0, frame |-> "none", recovered |-> FALSE, reply |-> "none",
     broadcastTo |-> {}, eventsCreated |-> 0, heartbeat |-> FALSE,
     args |-> <<>>, result |-> <<>>, eventOrigin |-> 0, success |-> FALSE,
     participant |-> 0, route |-> "none", uncaught |-> FALSE,
     limitParam |-> [present |-> FALSE, value |-> <<>>],
     limit |-> Num(0), returned |-> 0, items |-> 0, hasMore |-> FALSE,
     body |-> [userId |-> "", access |-> "null", refresh |-> "null", expiresAt |-> 0],
     httpStatus |-> 0, sandboxIdHeader |-> "none", authHeader |-> <<>>,
     closeCode |-> 0, eventBranch |-> <<>>, pushCall |-> "none", request |-> 0]

\* The actor state a handler reads and writes, as one record.
Cur(op) ==
    [messages |-> messages, sockets |-> sockets, sandboxWs |-> sandboxWs,
     sandboxStatus |-> sandboxStatus, sandbox |-> sandbox, alarm |-> alarm,
     scheduledAlarms |-> scheduledAlarms, circuitBreaker |-> circuitBreaker,
     clients |-> clients,
     participants |-> participants,
     dispatchLog |-> dispatchLog,
     execCompleteBroadcasts |-> execCompleteBroadcasts,
     callbackNotified |-> callbackNotified, stoppedIds |-> stoppedIds,
     sessionBranch |-> sessionBranch, artifacts |-> artifacts,
     pendingPushResolvers |-> pendingPushResolvers, pushTimers |-> pushTimers,
     prRequests |-> prRequests,
     fx |-> [NoFx EXCEPT !.op = op]]

Commit(s) ==
    /\ messages' = s.messages
    /\ sockets' = s.sockets
    /\ sandboxWs' = s.sandboxWs
    /\ sandboxStatus' = s.sandboxStatus
    /\ sandbox' = s.sandbox
    /\ alarm' = s.alarm
    /\ scheduledAlarms' = s.scheduledAlarms
    /\ circuitBreaker' = s.circuitBreaker
    /\ clients' = s.clients
    /\ participants' = s.participants
    /\ dispatchLog' = s.dispatchLog
    /\ execCompleteBroadcasts' = s.execCompleteBroadcasts
    /\ callbackNotified' = s.callbackNotified
    /\ stoppedIds' = s.stoppedIds
    /\ sessionBranch' = s.sessionBranch
    /\ artifacts' = s.artifacts
    /\ pendingPushResolvers' = s.pendingPushResolvers
    /\ pushTimers' = s.pushTimers
    /\ prRequests' = s.prRequests
    /\ last' = s.fx

\* ------------------------------------------------------------------------
\* Repository queries (SessionRepository)

\* The Message with status = processing, 0 when none.
getProcessingMessage(msgs) ==
    IF \E i \in 1..Len(msgs) : msgs[i].status = "processing"
    THEN CHOOSE i \in 1..Len(msgs) :
            /\ msgs[i].status = "processing"
            /\ \A j \in 1..Len(msgs) : msgs[j].status = "processing" => i <= j
    ELSE 0

\* Variant of getNextPendingMessage: the newest pending Message.
getNewestPendingMessage(msgs) ==
    IF \E i \in 1..Len(msgs) : msgs[i].status = "pending"
    THEN CHOOSE i \in 1..Len(msgs) :
            /\ msgs[i].status = "pending"
            /\ \A j \in 1..Len(msgs) : msgs[j].status = "pending" => j <= i
    ELSE 0

getNextPendingMessage(msgs) ==
    IF \E i \in 1..Len(msgs) : msgs[i].status = "pending"
    THEN CHOOSE i \in 1..Len(msgs) :
            /\ msgs[i].status = "pending"
            /\ \A j \in 1..Len(msgs) : msgs[j].status = "pending" => i <= j
    ELSE 0

createMessage(s) ==
    [s EXCEPT !.messages = Append(@, [status |-> "pending"]),
              !.execCompleteBroadcasts = Append(@, 0),
              !.callbackNotified = Append(@, 0)]

\* The first Participant row of a user, 0 when none.
getParticipantByUserId(rows, userId) ==
    IF \E i \in 1..Len(rows) : rows[i].userId = userId
    THEN CHOOSE i \in 1..Len(rows) :
            /\ rows[i].userId = userId
            /\ \A j \in 1..Len(rows) : rows[j].userId = userId => i <= j
    ELSE 0

createParticipant(s, row) ==
    [s EXCEPT !.participants = Append(@, row)]

\* createParticipantRecord: a member row with no tokens.
createParticipantRecord(s, userId) ==
    createParticipant(s, [userId |-> userId, access |-> "null",
                          refresh |-> "null", expiresAt |-> 0])

\* Encrypted token values a request can carry; "null" is null or absent.
Tokens == {"null", "t1", "t2"}

\* Token expiry times a request can carry; 0 is null or absent.
MaxExpiry == 2

\* SQL COALESCE(new, old): the new value unless it is NULL.
coalesce(new, old, null) ==
    IF new # null THEN new ELSE old

\* updateParticipantCoalesce, token columns: each column keeps its value when
\* the given one is null.
updateParticipantCoalesce(s, id, data) ==
    LET row == s.participants[id]
    IN  [s EXCEPT !.participants[id] =
            [userId |-> row.userId,
             access |-> coalesce(data.access, row.access, "null"),
             refresh |-> coalesce(data.refresh, row.refresh, "null"),
             expiresAt |-> coalesce(data.expiresAt, row.expiresAt, 0)]]

clientSentAnyToken(body) ==
    body.access # "null" \/ body.refresh # "null"

\* Variant of shouldUpdateTokens: any token the client sent wins, whatever
\* the expiry times.
shouldUpdateTokensAnyToken(body, participant) ==
    clientSentAnyToken(body)

\* The client sent a token and the stored expiry is null or not later than
\* the client's.
shouldUpdateTokens(body, participant) ==
    /\ clientSentAnyToken(body)
    /\ \/ participant.expiresAt = 0
       \/ body.expiresAt # 0 /\ body.expiresAt >= participant.expiresAt

shouldUpdateRefreshToken(body, participant) ==
    /\ body.refresh # "null"
    /\ participant.refresh = "null" \/ shouldUpdateTokens(body, participant)

\* ------------------------------------------------------------------------
\* Connection registry (SessionWebSocketManager)

NewClient == [state |-> "open", closeCode |-> 0, cached |-> "none", mapping |-> "none"]

\* wsManager.close(ws, code, reason)
closeClient(s, ws, code) ==
    [s EXCEPT !.clients[ws].state = "closed", !.clients[ws].closeCode = code]

\* forEachClientSocket("authenticated_only"): the open client sockets that have
\* completed a subscribe.
authenticatedClients(cs) ==
    {c \in 1..Len(cs) : cs[c].state = "open"
                          /\ (cs[c].cached # "none" \/ cs[c].mapping # "none")}

\* Variant of broadcast: every open socket of the actor gets the message.
broadcastToEverySocket(s) ==
    [s EXCEPT !.fx.broadcastTo = @
        \cup {<<"client", c>> : c \in {d \in 1..Len(s.clients) : s.clients[d].state = "open"}}
        \cup (IF s.sandboxWs # 0 THEN {<<"sandbox", s.sandboxWs>>} ELSE {})]

\* broadcastToClients; a recipient is <<"client", socket>>.
broadcast(s) ==
    [s EXCEPT !.fx.broadcastTo = @
        \cup {<<"client", c>> : c \in authenticatedClients(s.clients)}]

\* send: TRUE when the frame was written, FALSE on a closed or broken socket.
safeSend(socks, ws) == ws # 0 /\ socks[ws] = "open"

\* ------------------------------------------------------------------------
\* Lifecycle manager

\* spawnSandbox: request a new sandbox instance; the Sandbox row goes to spawning
\* and gets the expected sandbox id and the auth token of the new instance.
spawnSandbox(s) ==
    [s EXCEPT !.sandboxStatus = "spawning",
              !.sandbox = [auth_token |-> "tok", modal_sandbox_id |-> "sb"],
              !.fx.spawn = TRUE]

\* alarmScheduler.scheduleAlarm: this.schedule(new Date(timestamp), "lifecycleAlarm")
\* adds a one-shot schedule row to the Agent's scheduler; rows already pending
\* stay. Rows beyond MaxScheduledAlarms are not counted.
scheduleAlarm(s) ==
    [s EXCEPT !.scheduledAlarms = IF @ < MaxScheduledAlarms THEN @ + 1 ELSE @]

\* scheduleInactivityCheck / scheduleDisconnectCheck: arm the check and
\* schedule its wake-up.
scheduleInactivityCheck(s) ==
    scheduleAlarm([s EXCEPT !.alarm = "inactivity", !.fx.inactivityCheck = TRUE])

scheduleDisconnectCheck(s) ==
    scheduleAlarm([s EXCEPT !.alarm = "disconnect", !.fx.disconnectCheck = TRUE])

\* ------------------------------------------------------------------------
\* Queue processor (sandbox-handler.ts)

\* Variant: no single-flight check before picking the next Message.
processMessageQueueNoSingleFlight(s) ==
    LET s0 == [s EXCEPT !.fx.queueRuns = @ + 1]
        m == getNextPendingMessage(s0.messages)
    IN  IF m = 0 THEN s0
        ELSE IF s0.sandboxWs = 0
        THEN spawnSandbox([s0 EXCEPT !.fx.spawning = TRUE])
        ELSE [s0 EXCEPT !.messages[m].status = "processing",
                        !.fx.activity = TRUE,
                        !.fx.dispatched = m,
                        !.fx.sent = safeSend(s0.sockets, s0.sandboxWs),
                        !.dispatchLog = Append(@,
                            [messageId |-> m, socket |-> s0.sandboxWs,
                             sent |-> safeSend(s0.sockets, s0.sandboxWs)])]

\* Variant: picks the newest pending Message instead of the oldest.
processMessageQueueNewestFirst(s) ==
    LET s0 == [s EXCEPT !.fx.queueRuns = @ + 1]
        m == getNewestPendingMessage(s0.messages)
    IN  IF getProcessingMessage(s0.messages) # 0 THEN s0
        ELSE IF m = 0 THEN s0
        ELSE IF s0.sandboxWs = 0
        THEN spawnSandbox([s0 EXCEPT !.fx.spawning = TRUE])
        ELSE [s0 EXCEPT !.messages[m].status = "processing",
                        !.fx.activity = TRUE,
                        !.fx.dispatched = m,
                        !.fx.sent = safeSend(s0.sockets, s0.sandboxWs),
                        !.dispatchLog = Append(@,
                            [messageId |-> m, socket |-> s0.sandboxWs,
                             sent |-> safeSend(s0.sockets, s0.sandboxWs)])]

\* Variant: marks the Message processing before looking for the socket.
processMessageQueueMarkFirst(s) ==
    LET s0 == [s EXCEPT !.fx.queueRuns = @ + 1]
        m == getNextPendingMessage(s0.messages)
    IN  IF getProcessingMessage(s0.messages) # 0 THEN s0
        ELSE IF m = 0 THEN s0
        ELSE IF s0.sandboxWs = 0
        THEN spawnSandbox([s0 EXCEPT !.messages[m].status = "processing",
                                     !.fx.spawning = TRUE])
        ELSE [s0 EXCEPT !.messages[m].status = "processing",
                        !.fx.activity = TRUE,
                        !.fx.dispatched = m,
                        !.fx.sent = safeSend(s0.sockets, s0.sandboxWs),
                        !.dispatchLog = Append(@,
                            [messageId |-> m, socket |-> s0.sandboxWs,
                             sent |-> safeSend(s0.sockets, s0.sandboxWs)])]

processMessageQueue(s) ==
    LET s0 == [s EXCEPT !.fx.queueRuns = @ + 1]
        m == getNextPendingMessage(s0.messages)
    IN  IF getProcessingMessage(s0.messages) # 0 THEN s0
        ELSE IF m = 0 THEN s0
        ELSE IF s0.sandboxWs = 0
        THEN spawnSandbox([s0 EXCEPT !.fx.spawning = TRUE])
        ELSE [s0 EXCEPT !.messages[m].status = "processing",
                        !.fx.activity = TRUE,
                        !.fx.dispatched = m,
                        !.fx.sent = safeSend(s0.sockets, s0.sandboxWs),
                        !.dispatchLog = Append(@,
                            [messageId |-> m, socket |-> s0.sandboxWs,
                             sent |-> safeSend(s0.sockets, s0.sandboxWs)])]

\* Variant: stop() that broadcasts and notifies but leaves the row processing.
stopExecutionNoStatusUpdate(s) ==
    LET p == getProcessingMessage(s.messages)
        s1 == IF p # 0
              THEN [s EXCEPT !.stoppedIds = @ \cup {p},
                             !.execCompleteBroadcasts[p] = (IF @ < 2 THEN @ + 1 ELSE @),
                             !.callbackNotified[p] = (IF @ < 2 THEN @ + 1 ELSE @),
                             !.fx.handled = TRUE]
              ELSE s
    IN  broadcast([s1 EXCEPT !.fx.stopForwarded = safeSend(s.sockets, s.sandboxWs)])

stopExecution(s) ==
    LET p == getProcessingMessage(s.messages)
        s1 == IF p # 0
              THEN [s EXCEPT !.messages[p].status = "failed",
                             !.stoppedIds = @ \cup {p},
                             !.execCompleteBroadcasts[p] = (IF @ < 2 THEN @ + 1 ELSE @),
                             !.callbackNotified[p] = (IF @ < 2 THEN @ + 1 ELSE @),
                             !.fx.handled = TRUE]
              ELSE s
    IN  broadcast([s1 EXCEPT !.fx.stopForwarded = safeSend(s.sockets, s.sandboxWs)])

\* Variant: any completion that names a Message is taken as current.
isStillProcessingAnyMessage(completionMessageId, processingMessage) ==
    completionMessageId # 0

isStillProcessing(completionMessageId, processingMessage) ==
    completionMessageId # 0 /\ processingMessage = completionMessageId

\* Variant: the already-stopped branch returns without the trailing calls.
executionCompleteReturnEarly(s, event) ==
    LET processingMessage == getProcessingMessage(s.messages)
        messageId == IF event.messageId # 0 THEN event.messageId
                     ELSE processingMessage
    IN  IF isStillProcessing(messageId, processingMessage)
        THEN processMessageQueue(scheduleAlarm(
                [s EXCEPT !.messages[messageId].status =
                              IF event.success THEN "completed" ELSE "failed",
                          !.execCompleteBroadcasts[messageId] = (IF @ < 2 THEN @ + 1 ELSE @),
                          !.callbackNotified[messageId] = (IF @ < 2 THEN @ + 1 ELSE @),
                          !.fx.handled = TRUE,
                          !.fx.snapshot = TRUE,
                          !.alarm = "inactivity",
                          !.fx.activity = TRUE,
                          !.fx.inactivityCheck = TRUE]))
        ELSE [s EXCEPT !.fx.alreadyStopped = TRUE]

\* processSandboxEvent, the execution_complete branch.
executionComplete(s, event) ==
    LET processingMessage == getProcessingMessage(s.messages)
        messageId == IF event.messageId # 0 THEN event.messageId
                     ELSE processingMessage
        s1 == IF isStillProcessing(messageId, processingMessage)
              THEN [s EXCEPT !.messages[messageId].status =
                                 IF event.success THEN "completed" ELSE "failed",
                             !.execCompleteBroadcasts[messageId] = (IF @ < 2 THEN @ + 1 ELSE @),
                             !.callbackNotified[messageId] = (IF @ < 2 THEN @ + 1 ELSE @),
                             !.fx.handled = TRUE,
                             !.fx.broadcastTo = broadcast(s).fx.broadcastTo]
              ELSE [s EXCEPT !.fx.alreadyStopped = TRUE]
        s2 == scheduleInactivityCheck([s1 EXCEPT !.fx.snapshot = TRUE,
                                                 !.fx.activity = TRUE])
    IN  processMessageQueue(s2)

\* Variant of processSandboxEventOfQueue: heartbeats are stored and broadcast
\* like any other event.
processSandboxEventHeartbeatStored(s, event) ==
    LET stored == [s EXCEPT !.fx.eventsCreated = @ + 1,
                            !.fx.heartbeat = (event.type = "heartbeat")]
    IN  IF event.type = "execution_complete" THEN executionComplete(stored, event)
        ELSE broadcast(stored)

\* processSandboxEvent for the events that are not push results: a heartbeat
\* only updates Sandbox.last_heartbeat; any other event is stored as one Event
\* row, then handled by type and broadcast.
processSandboxEventOfQueue(s, event) ==
    IF event.type = "heartbeat" THEN [s EXCEPT !.fx.heartbeat = TRUE]
    ELSE LET stored == [s EXCEPT !.fx.eventsCreated = @ + 1]
         IN  IF event.type = "execution_complete" THEN executionComplete(stored, event)
             ELSE broadcast(stored)

\* ------------------------------------------------------------------------
\* Handlers

Init ==
    /\ messages = <<>>
    /\ sockets = <<>>
    /\ sandboxWs = 0
    /\ sandboxStatus = "pending"
    /\ sandbox = [auth_token |-> "null", modal_sandbox_id |-> "null"]
    /\ alarm = "none"
    /\ scheduledAlarms = 0
    /\ participants = <<[userId |-> Owner, access |-> "null", refresh |-> "null", expiresAt |-> 0]>>
    /\ clients = <<>>
    /\ circuitBreaker = [failureCount |-> 0, lastFailureAt |-> 0, now |-> 0]
    /\ dispatchLog = <<>>
    /\ execCompleteBroadcasts = <<>>
    /\ callbackNotified = <<>>
    /\ stoppedIds = {}
    /\ sessionBranch = <<>>
    /\ artifacts = <<>>
    /\ pendingPushResolvers = {}
    /\ pushTimers = <<>>
    /\ prRequests = <<>>
    /\ last = NoFx

\* The common part of the two prompt entry points: look the author up, create
\* the Participant row when there is none, create the Message, run the queue.
enqueuePrompt(s, authorId) ==
    LET withAuthor == IF getParticipantByUserId(s.participants, authorId) # 0 THEN s
                      ELSE createParticipantRecord(s, authorId)
        withMessage == createMessage(withAuthor)
    IN  processMessageQueue(broadcast(
            [withMessage EXCEPT !.fx.eventsCreated = @ + 1]))

\* POST /internal/prompt with body.authorId among authorIds.
handleEnqueuePromptBy(authorIds) ==
    \E authorId \in authorIds :
        /\ Len(messages) < MaxMessages
        /\ \/ getParticipantByUserId(participants, authorId) # 0
           \/ Len(participants) < MaxParticipants
        /\ Commit(enqueuePrompt(Cur("enqueue"), authorId))

\* POST /internal/prompt
handleEnqueuePrompt ==
    handleEnqueuePromptBy({Owner})

\* Client frame {type: "prompt"}; hasClient: getClientInfo found an identity.
handlePromptMessage ==
    \E hasClient \in BOOLEAN :
        /\ Len(messages) < MaxMessages
        /\ IF hasClient
           THEN Commit(enqueuePrompt(Cur("enqueue"), Owner))
           ELSE Commit([Cur("prompt_rejected") EXCEPT !.fx.errorFrame = TRUE])

\* POST /internal/prompt on behalf of any user.
handleEnqueuePromptOfUser ==
    handleEnqueuePromptBy(Users)

\* POST /internal/participants: a member row is created for body.userId, with
\* no lookup of an existing row.
handleAddParticipant ==
    \E userId \in Users :
        /\ Len(participants) < MaxParticipants
        /\ Commit(createParticipantRecord(
                [Cur("add_participant") EXCEPT !.fx.body.userId = userId], userId))

\* POST /internal/ws-token. The token hash written by updateParticipantWsToken
\* is not part of the state: handleSubscribe draws the outcome of its lookup.
handleGenerateWsToken ==
    \E userId \in Users \cup {""}, access \in Tokens, refresh \in Tokens,
       expiresAt \in 0..MaxExpiry :
        LET body == [userId |-> userId, access |-> access, refresh |-> refresh,
                     expiresAt |-> expiresAt]
            s == [Cur("ws_token") EXCEPT !.fx.body = body]
            id == getParticipantByUserId(participants, userId)
        IN  IF userId = ""
            THEN Commit([s EXCEPT !.fx.httpStatus = 400])
            ELSE IF id # 0
            THEN LET participant == participants[id]
                     updateTokens == shouldUpdateTokens(body, participant)
                     updateRefresh == shouldUpdateRefreshToken(body, participant)
                 IN  Commit(updateParticipantCoalesce(
                        [s EXCEPT !.fx.participant = id], id,
                        [access |-> IF updateTokens THEN access ELSE "null",
                         refresh |-> IF updateRefresh THEN refresh ELSE "null",
                         expiresAt |-> IF updateTokens THEN expiresAt ELSE 0]))
            ELSE /\ Len(participants) < MaxParticipants
                 /\ Commit(createParticipant(s, body))

\* The characters a limit query parameter is made of here: a sign, three
\* digits and a letter.
LimitChars == {"-", "0", "2", "5", "a"}

\* Longest limit parameter tried.
MaxLimitLen == 3

\* Largest number of stored rows matching a list request.
MaxRows == 250

EventsPageCap == 200

MessagesPageCap == 100

\* The limit used when the query has no limit parameter: "50".
DefaultLimit == <<"5", "0">>

IsDigit(c) == c \in {"0", "2", "5"}

DigitValue(c) ==
    CASE c = "0" -> 0 [] c = "2" -> 2 [] c = "5" -> 5

RECURSIVE DecimalValue(_)
DecimalValue(digits) ==
    IF digits = <<>> THEN 0
    ELSE 10 * DecimalValue(SubSeq(digits, 1, Len(digits) - 1))
            + DigitValue(digits[Len(digits)])

\* parseInt(str), radix 10: an optional sign, then the longest run of digits;
\* what follows the digits is ignored; NaN when there is no digit.
parseInt(str) ==
    LET negative == Len(str) > 0 /\ str[1] = "-"
        body == IF negative THEN Tail(str) ELSE str
        n == IF \E k \in 1..Len(body) : ~IsDigit(body[k])
             THEN (CHOOSE k \in 1..Len(body) :
                      /\ ~IsDigit(body[k])
                      /\ \A m \in 1..(k - 1) : IsDigit(body[m])) - 1
             ELSE Len(body)
        magnitude == DecimalValue(SubSeq(body, 1, n))
    IN  IF n = 0 THEN NaN
        ELSE Num(IF negative THEN 0 - magnitude ELSE magnitude)

\* Math.min(a, b): NaN when either argument is NaN.
MathMin(a, b) ==
    IF a.nan \/ b.nan THEN NaN
    ELSE IF a.value <= b.value THEN a ELSE b

\* length > limit: every comparison with NaN is false.
GreaterThan(length, limit) ==
    ~limit.nan /\ length > limit.value

\* The numbers of rows repository.listEvents / listMessages can return for a
\* limit when rows match: limit + 1 rows at most for a limit that is a
\* number >= 0 (the extra row tells hasMore); for a negative or NaN limit
\* either nothing or every matching row.
listRows(limit, rows) ==
    IF ~limit.nan /\ limit.value >= 0
    THEN {IF rows <= limit.value + 1 THEN rows ELSE limit.value + 1}
    ELSE {0, rows}

\* Math.min(parseInt(url.searchParams.get("limit") ?? "50"), cap)
pageLimit(param, cap) ==
    MathMin(parseInt(IF param.present THEN param.value ELSE DefaultLimit), Num(cap))

\* The common body of handleListEvents and handleListMessages.
listPage(s, param, cap, validFilter, returned) ==
    LET limit == pageLimit(param, cap)
        withLimit == [s EXCEPT !.fx.limitParam = param, !.fx.limit = limit]
        hasMore == GreaterThan(returned, limit)
    IN  IF ~validFilter THEN [withLimit EXCEPT !.fx.httpStatus = 400]
        ELSE [withLimit EXCEPT !.fx.returned = returned,
                               !.fx.hasMore = hasMore,
                               !.fx.items = IF hasMore /\ returned > 0
                                            THEN returned - 1 ELSE returned]

LimitParams ==
    {[present |-> FALSE, value |-> <<>>]}
        \cup {[present |-> TRUE, value |-> str] :
                 str \in UNION {[1..n -> LimitChars] : n \in 0..MaxLimitLen}}

\* GET /internal/events?limit=...&type=...
handleListEvents ==
    \E param \in LimitParams, validFilter \in BOOLEAN, rows \in {0, 1, MaxRows} :
        \E returned \in listRows(pageLimit(param, EventsPageCap), rows) :
            Commit(listPage(Cur("list_events"), param, EventsPageCap, validFilter, returned))

\* GET /internal/messages?limit=...&status=...
handleListMessages ==
    \E param \in LimitParams, validFilter \in BOOLEAN, rows \in {0, 1, MaxRows} :
        \E returned \in listRows(pageLimit(param, MessagesPageCap), rows) :
            Commit(listPage(Cur("list_messages"), param, MessagesPageCap, validFilter, returned))

\* The routes of INTERNAL_ROUTES whose handler reads a JSON body.
BodyRoutes ==
    {"init", "prompt", "sandbox-event", "participants", "create-pr", "ws-token",
     "archive", "unarchive", "verify-sandbox-token"}

\* What a handler does with the error request.json() throws: archive and
\* unarchive catch it and answer 400; prompt catches it, logs and throws it
\* again; the others call request.json() outside any try block.
onBodyError(route) ==
    IF route \in {"archive", "unarchive"} THEN "respond"
    ELSE IF route = "prompt" THEN "rethrow"
    ELSE "uncaught"

\* SessionDO.fetch for a request whose body is not JSON: the route's handler
\* runs up to request.json(); the catch block of fetch notes status 500 for
\* the log line and throws the error again.
fetchMalformedBody ==
    \E route \in BodyRoutes :
        LET s == [Cur("fetch_malformed") EXCEPT !.fx.route = route]
        IN  IF onBodyError(route) = "respond"
            THEN Commit([s EXCEPT !.fx.httpStatus = 400])
            ELSE Commit([s EXCEPT !.fx.uncaught = TRUE])

\* POST /internal/stop and the client frame {type: "stop"}
handleStop ==
    Commit(stopExecution(Cur("stop")))

\* An execution_complete event, from a sandbox socket or POST /internal/sandbox-event.
handleSandboxEvent ==
    \E messageId \in 0..Len(messages), success \in BOOLEAN :
        Commit(processSandboxEventOfQueue(
                [Cur("execution_complete") EXCEPT !.fx.eventMessageId = messageId],
                [type |-> "execution_complete", messageId |-> messageId,
                 success |-> success]))

\* The execution_complete event the sandbox sends for a prompt it was sent
\* (origin), with or without the messageId field.
handleSandboxCompletion ==
    \E d \in 1..Len(dispatchLog), carriesId \in BOOLEAN, success \in BOOLEAN :
        /\ dispatchLog[d].sent
        /\ LET origin == dispatchLog[d].messageId
               messageId == IF carriesId THEN origin ELSE 0
           IN  Commit(processSandboxEventOfQueue(
                    [Cur("execution_complete") EXCEPT !.fx.eventMessageId = messageId,
                                                      !.fx.eventOrigin = origin,
                                                      !.fx.success = success],
                    [type |-> "execution_complete", messageId |-> messageId,
                     success |-> success]))

\* A heartbeat, token, tool_call or git_sync event from the sandbox.
handleSandboxStreamEvent ==
    \E type \in {"heartbeat", "token", "tool_call", "git_sync"} :
        Commit(processSandboxEventOfQueue(Cur(type), [type |-> type]))

\* Headers of a sandbox WebSocket upgrade request; "none" / <<>> is an absent header.
SandboxIdHeaders == {"none", "sb", "other"}
AuthHeaders == {<<>>, <<"Bearer", "null">>, <<"Bearer", "tok">>, <<"Bearer", "bad">>}

\* The HTTP status the upgrade's pre-acceptance checks produce; 101 is accept.
upgradeStatus(status, row, sandboxIdHeader, authHeader) ==
    IF status = "stopped" \/ status = "stale" THEN 410
    ELSE IF row.modal_sandbox_id # "null" /\ sandboxIdHeader # row.modal_sandbox_id THEN 403
    ELSE IF authHeader = <<>> \/ authHeader # <<"Bearer", row.auth_token>> THEN 401
    ELSE 101

\* acceptAndSetSandboxSocket, onSandboxConnected, updateSandboxStatus("ready"),
\* updateLastActivity, scheduleInactivityCheck.
acceptSandboxSocket(s) ==
    scheduleInactivityCheck(broadcast(
        [s EXCEPT !.sockets = Append(@, "open"),
                  !.sandboxWs = Len(s.sockets) + 1,
                  !.sandboxStatus = "ready",
                  !.circuitBreaker.failureCount = 0,
                  !.fx.accepted = TRUE,
                  !.fx.replaced = (s.sandboxWs # 0),
                  !.fx.activity = TRUE]))

\* Variant: accepts the socket but does not drain the queue.
handleSandboxWebSocketUpgradeNoDrain ==
    \E sandboxIdHeader \in SandboxIdHeaders, authHeader \in AuthHeaders :
        /\ Len(sockets) < MaxSockets
        /\ LET code == upgradeStatus(sandboxStatus, sandbox, sandboxIdHeader, authHeader)
           IN  IF code # 101
               THEN Commit([Cur("connect_rejected") EXCEPT !.fx.httpStatus = code])
               ELSE Commit(acceptSandboxSocket(
                        [Cur("connect") EXCEPT !.fx.httpStatus = code]))

\* Sandbox WebSocket upgrade.
handleSandboxWebSocketUpgrade ==
    \E sandboxIdHeader \in SandboxIdHeaders, authHeader \in AuthHeaders :
        /\ Len(sockets) < MaxSockets
        /\ LET code == upgradeStatus(sandboxStatus, sandbox, sandboxIdHeader, authHeader)
           IN  IF code # 101
               THEN Commit([Cur("connect_rejected") EXCEPT !.fx.httpStatus = code,
                                !.fx.sandboxIdHeader = sandboxIdHeader,
                                !.fx.authHeader = authHeader])
               ELSE Commit(processMessageQueue(acceptSandboxSocket(
                        [Cur("connect") EXCEPT !.fx.httpStatus = code,
                             !.fx.sandboxIdHeader = sandboxIdHeader,
                             !.fx.authHeader = authHeader])))

\* Variant: an abnormal close marks the Sandbox stale at once.
webSocketCloseStaleAtOnce ==
    \E ws \in 1..Len(sockets), code \in CloseCodes :
        /\ sockets[ws] # "closed"
        /\ LET s == [Cur("close") EXCEPT !.sockets[ws] = "closed",
                                         !.fx.closeCode = code]
               wasActive == (sandboxWs = ws)
           IN  IF ~wasActive THEN Commit(s)
               ELSE IF code = NormalClosure \/ code = GoingAway
               THEN Commit([s EXCEPT !.sandboxWs = 0, !.sandboxStatus = "stopped"])
               ELSE Commit([s EXCEPT !.sandboxWs = 0, !.sandboxStatus = "stale"])

\* Variant: the close of any sandbox-tagged socket is treated as the close of
\* the active one.
webSocketCloseAnySocket ==
    \E ws \in 1..Len(sockets), code \in CloseCodes :
        /\ sockets[ws] # "closed"
        /\ LET s == [Cur("close") EXCEPT !.sockets[ws] = "closed",
                                         !.fx.closeCode = code]
           IN  IF code = NormalClosure \/ code = GoingAway
               THEN Commit([s EXCEPT !.sandboxWs = 0, !.sandboxStatus = "stopped"])
               ELSE Commit(scheduleDisconnectCheck([s EXCEPT !.sandboxWs = 0]))

\* The close event of a sandbox-tagged socket.
webSocketClose ==
    \E ws \in 1..Len(sockets), code \in CloseCodes :
        /\ sockets[ws] # "closed"
        /\ LET s == [Cur("close") EXCEPT !.sockets[ws] = "closed",
                                         !.fx.closeCode = code]
               wasActive == (sandboxWs = ws)
           IN  IF ~wasActive THEN Commit(s)
               ELSE IF code = NormalClosure \/ code = GoingAway
               THEN Commit([s EXCEPT !.sandboxWs = 0, !.sandboxStatus = "stopped"])
               ELSE Commit(scheduleDisconnectCheck([s EXCEPT !.sandboxWs = 0]))

\* Circuit breaker of the spawn path (SandboxLifecycleManager): the failure
\* threshold and the rolling window, in clock ticks.
CircuitBreakerThreshold == 2
CircuitBreakerWindow == 2

circuitIsOpen(cb) ==
    /\ cb.failureCount >= CircuitBreakerThreshold
    /\ cb.now - cb.lastFailureAt < CircuitBreakerWindow

\* Variant: only the failure count is looked at for explicit spawns, and warm
\* spawns are not guarded.
circuitIsOpenFor(kind, cb) ==
    IF kind = "warm" THEN FALSE ELSE circuitIsOpen(cb)

\* Variant of spawnAttempt built on circuitIsOpenFor.
spawnAttemptWarmUnguarded ==
    \E kind \in {"spawn", "warm"}, providerOk \in BOOLEAN :
        LET s == [Cur("spawn_attempt") EXCEPT !.fx.spawnKind = kind]
            cb == circuitBreaker
        IN  IF circuitIsOpenFor(kind, cb)
            THEN Commit([s EXCEPT !.fx.circuitOpen = TRUE])
            ELSE LET closed == IF cb.failureCount >= CircuitBreakerThreshold
                                  /\ ~circuitIsOpen(cb)
                               THEN [s EXCEPT !.circuitBreaker.failureCount = 0]
                               ELSE s
                     called == [closed EXCEPT !.fx.providerCalled = TRUE]
                 IN  IF providerOk
                     THEN Commit(spawnSandbox(called))
                     ELSE Commit([called EXCEPT
                              !.circuitBreaker.failureCount =
                                  IF @ < CircuitBreakerThreshold THEN @ + 1 ELSE @,
                              !.circuitBreaker.lastFailureAt = cb.now])

\* A spawn attempt, explicit (spawnSandbox) or warm (warmSandbox), with the
\* outcome of the provisioning API when it is contacted. An open circuit
\* answers with the circuit-open error before the API is contacted; a circuit
\* whose window has elapsed is reset; a failed attempt is counted with its
\* timestamp.
spawnAttempt ==
    \E kind \in {"spawn", "warm"}, providerOk \in BOOLEAN :
        LET s == [Cur("spawn_attempt") EXCEPT !.fx.spawnKind = kind]
            cb == circuitBreaker
        IN  IF circuitIsOpen(cb)
            THEN Commit([s EXCEPT !.fx.circuitOpen = TRUE])
            ELSE LET closed == IF cb.failureCount >= CircuitBreakerThreshold
                               THEN [s EXCEPT !.circuitBreaker.failureCount = 0]
                               ELSE s
                     called == [closed EXCEPT !.fx.providerCalled = TRUE]
                 IN  IF providerOk
                     THEN Commit(spawnSandbox(called))
                     ELSE Commit([called EXCEPT
                              !.circuitBreaker.failureCount =
                                  IF @ < CircuitBreakerThreshold THEN @ + 1 ELSE @,
                              !.circuitBreaker.lastFailureAt = cb.now])

\* Time passes.
clockTick ==
    /\ circuitBreaker.now < MaxClock
    /\ Commit([Cur("tick") EXCEPT !.circuitBreaker.now = @ + 1])

\* The scheduled lifecycle alarm fires (SandboxLifecycleManager.handleAlarm).
\* A disconnect-grace check marks a ready Sandbox stale when no socket has
\* reconnected. An inactivity check compares the Sandbox row's last activity
\* with the idle timeout (idleExpired): the manager is built over the Sandbox
\* and Session rows, the socket registry and the alarm scheduler, and has no
\* accessor for Messages, so the idle timer (refreshed on connect, on dispatch
\* and on execution_complete) is all it knows about a running prompt.
lifecycleAlarm ==
    \E idleExpired \in BOOLEAN :
        /\ scheduledAlarms > 0
        /\ LET s == [Cur("alarm") EXCEPT !.alarm = "none",
                                         !.scheduledAlarms = @ - 1]
           IN  IF alarm = "none" THEN Commit(s)
               ELSE IF alarm = "disconnect"
               THEN IF sandboxWs = 0 /\ sandboxStatus = "ready"
                    THEN Commit([s EXCEPT !.sandboxStatus = "stale"])
                    ELSE Commit(s)
               ELSE IF sandboxStatus # "ready" THEN Commit(s)
               ELSE IF ~idleExpired
               THEN Commit(scheduleInactivityCheck(s))
               ELSE Commit([s EXCEPT !.sandboxStatus = "stopped",
                                     !.sandboxWs = 0,
                                     !.sockets = [i \in 1..Len(sockets) |->
                                         IF i = sandboxWs THEN "broken" ELSE sockets[i]]])

\* The connection behind a sandbox socket dies; its close event is still to come.
SocketBreaks ==
    \E ws \in 1..Len(sockets) :
        /\ sockets[ws] = "open"
        /\ sockets' = [sockets EXCEPT ![ws] = "broken"]
        /\ last' = [NoFx EXCEPT !.op = "socket_breaks"]
        /\ UNCHANGED <<messages, sandboxWs, sandboxStatus, sandbox, alarm,
                       scheduledAlarms, circuitBreaker, clients, participants,
                       dispatchLog,
                       execCompleteBroadcasts, callbackNotified, stoppedIds,
                       sessionBranch, artifacts, pendingPushResolvers,
                       pushTimers, prRequests>>

\* ------------------------------------------------------------------------
\* Client sockets (client-handler.ts)

\* Variant of getClientInfo: only the in-memory identity is looked at.
getClientInfoCacheOnly(s, ws) ==
    LET c == s.clients[ws]
    IN  IF c.cached # "none" THEN [s |-> s, client |-> c.cached]
        ELSE [s |-> closeClient(s, ws, SessionExpired), client |-> "none"]

\* getClientInfo: the in-memory identity, else the identity rebuilt from the
\* persisted mapping and re-cached, else the socket is closed with 4002.
\* Yields the state after the call and the identity ("none" for null).
getClientInfo(s, ws) ==
    LET c == s.clients[ws]
    IN  IF c.cached # "none" THEN [s |-> s, client |-> c.cached]
        ELSE IF c.mapping = "none"
        THEN [s |-> closeClient(s, ws, SessionExpired), client |-> "none"]
        ELSE [s |-> [s EXCEPT !.clients[ws].cached = c.mapping,
                              !.fx.recovered = TRUE],
              client |-> c.mapping]

\* A client WebSocket connects (Agent.onConnect).
onConnect ==
    /\ Len(clients) < MaxClients
    /\ Commit([Cur("client_connect") EXCEPT !.clients = Append(@, NewClient)])

\* Client frame {type: "subscribe"}; participant is what
\* getParticipantByWsTokenHash finds for the token, 0 when nothing.
handleSubscribe ==
    \E ws \in 1..Len(clients), hasToken \in BOOLEAN, participant \in 0..Len(participants) :
        /\ clients[ws].state = "open"
        /\ hasToken \/ participant = 0
        /\ LET s == [Cur("subscribe") EXCEPT !.fx.clientWs = ws, !.fx.frame = "subscribe"]
           IN  IF ~hasToken \/ participant = 0
               THEN Commit(closeClient(s, ws, AuthenticationRequired))
               ELSE Commit(broadcast(
                        [s EXCEPT !.clients[ws].cached = participants[participant].userId,
                                  !.clients[ws].mapping = participants[participant].userId,
                                  !.fx.reply = "subscribed"]))

\* The actor is evicted from memory while its sockets stay connected: the
\* in-memory identities are lost, the persisted mappings stay.
hibernate ==
    /\ \E c \in 1..Len(clients) : clients[c].cached # "none"
    /\ Commit([Cur("hibernate") EXCEPT
           !.clients = [c \in 1..Len(clients) |-> [clients[c] EXCEPT !.cached = "none"]]])

\* Client frames that need the sender's identity: prompt, fetch_history, presence.
handleClientMessage ==
    \E ws \in 1..Len(clients), frame \in {"prompt", "fetch_history", "presence"} :
        /\ clients[ws].state = "open"
        /\ LET g == getClientInfo([Cur("client_frame") EXCEPT !.fx.clientWs = ws,
                                                              !.fx.frame = frame], ws)
           IN  IF frame = "presence"
               THEN IF g.client = "none" THEN Commit(g.s)
                    ELSE Commit(broadcast(g.s))
               ELSE IF g.client = "none"
               THEN Commit([g.s EXCEPT !.fx.errorFrame = TRUE])
               ELSE IF frame = "fetch_history"
               THEN Commit([g.s EXCEPT !.fx.reply = "history_page"])
               ELSE /\ Len(messages) < MaxMessages
                    /\ Commit(enqueuePrompt([g.s EXCEPT !.fx.reply = "prompt_queued"],
                                            g.client))

\* handleTyping: warm a sandbox when none is connected and none is being spawned.
handleTyping(s) ==
    IF s.sandboxWs = 0 /\ s.sandboxStatus # "spawning"
    THEN spawnSandbox(broadcast(s))
    ELSE s

ClientFramesOther == {"malformed", "binary", "ping", "stop", "typing"}

\* Variant of handleClientMessageOther: the catch block logs and sends nothing.
handleClientMessageOtherSilentCatch ==
    \E ws \in 1..Len(clients), frame \in ClientFramesOther :
        /\ clients[ws].state = "open"
        /\ LET s == [Cur("client_frame_any") EXCEPT !.fx.clientWs = ws, !.fx.frame = frame]
           IN  CASE frame = "malformed" -> Commit(s)
                 [] frame = "binary" -> Commit(s)
                 [] frame = "ping" -> Commit([s EXCEPT !.fx.reply = "pong"])
                 [] frame = "stop" -> Commit(stopExecution(s))
                 [] frame = "typing" -> Commit(handleTyping(s))

\* onMessage / handleClientMessage for the frames that are handled without
\* looking the sender up: a frame that is not text (ignored), text that
\* JSON.parse rejects (the catch block answers with an INVALID_MESSAGE error
\* frame), ping, stop and typing.
handleClientMessageOther ==
    \E ws \in 1..Len(clients), frame \in ClientFramesOther :
        /\ clients[ws].state = "open"
        /\ LET s == [Cur("client_frame_any") EXCEPT !.fx.clientWs = ws, !.fx.frame = frame]
           IN  CASE frame = "malformed" -> Commit([s EXCEPT !.fx.errorFrame = TRUE])
                 [] frame = "binary" -> Commit(s)
                 [] frame = "ping" -> Commit([s EXCEPT !.fx.reply = "pong"])
                 [] frame = "stop" -> Commit(stopExecution(s))
                 [] frame = "typing" -> Commit(handleTyping(s))

\* webSocketMessage / handleSandboxMessage for a frame of a sandbox socket that
\* is not text (ignored) or that JSON.parse rejects (the catch block logs it).
handleSandboxMessageMalformed ==
    \E ws \in 1..Len(sockets), frame \in {"malformed", "binary"} :
        /\ sockets[ws] = "open"
        /\ Commit([Cur("sandbox_frame") EXCEPT !.fx.frame = frame])

\* A client socket closes (Agent.onClose): removeClient, presence_leave.
onClose ==
    \E ws \in 1..Len(clients) :
        /\ clients[ws].state = "open"
        /\ LET s == closeClient([Cur("client_close") EXCEPT !.fx.clientWs = ws],
                                ws, NormalClosure)
           IN  IF clients[ws].cached = "none" THEN Commit(s)
               ELSE Commit(broadcast([s EXCEPT !.clients[ws].cached = "none"]))

\* ------------------------------------------------------------------------
\* Push coordinator (sandbox-handler.ts)

\* Branch names are sequences of characters; <<>> is null / undefined / "".
GeneratedHeadBranch == <<"g">>
RequestedHeadBranches == {<<>>, <<"f">>}
EventBranchNames == {<<"F", " ">>, <<"g">>, <<"x">>}

toLowerCase(c) == IF c = "F" THEN "f" ELSE IF c = "G" THEN "g" ELSE c

RECURSIVE trim(_)
trim(name) ==
    IF name = <<>> THEN name
    ELSE IF Head(name) = " " THEN trim(Tail(name))
    ELSE IF name[Len(name)] = " " THEN trim(SubSeq(name, 1, Len(name) - 1))
    ELSE name

normalizeBranchName(name) ==
    LET trimmed == trim(name)
    IN  [i \in 1..Len(trimmed) |-> toLowerCase(trimmed[i])]

\* Map operations on pendingPushResolvers.
resolverHas(map, key) == \E e \in map : e.branch = key
resolverGet(map, key) == IF resolverHas(map, key)
                         THEN (CHOOSE e \in map : e.branch = key).req
                         ELSE 0
resolverDelete(map, key) == {e \in map : e.branch # key}
resolverSet(map, key, req) ==
    resolverDelete(map, key) \cup {[branch |-> key, req |-> req]}

removeTimer(timers, r) == SelectSeq(timers, LAMBDA x : x # r)

\* ------------------------------------------------------------------------
\* create-PR route (internal-routes.ts)

hasPrArtifact(arts) == \E i \in 1..Len(arts) : arts[i].type = "pr"

respond(s, r, status, kind) ==
    [s EXCEPT !.prRequests[r].pc = "done",
              !.prRequests[r].status = status,
              !.prRequests[r].kind = kind]

resolveHeadBranchForPr(requestedHeadBranch, sessionBranchName, generatedBranchName) ==
    IF requestedHeadBranch # <<>> THEN requestedHeadBranch
    ELSE IF sessionBranchName # <<>> THEN sessionBranchName
    ELSE generatedBranchName

getExistingManualBranchArtifact(arts, headBranch) ==
    \E i \in 1..Len(arts) :
        arts[i].type = "branch" /\ arts[i].mode = "manual_pr" /\ arts[i].head = headBranch

\* The first manual-PR branch artifact for headBranch in arts, 0 when none.
manualArtifactIndex(arts, headBranch) ==
    IF getExistingManualBranchArtifact(arts, headBranch)
    THEN CHOOSE i \in 1..Len(arts) :
            /\ arts[i].type = "branch" /\ arts[i].mode = "manual_pr"
            /\ arts[i].head = headBranch
            /\ \A j \in 1..(i - 1) :
                  ~(arts[j].type = "branch" /\ arts[j].mode = "manual_pr"
                    /\ arts[j].head = headBranch)
    ELSE 0

\* Variant of buildManualPrFallbackResponse: never reuses an existing artifact.
buildManualPrFallbackResponseNoReuse(s, r) ==
    LET req == s.prRequests[r]
    IN  respond([s EXCEPT !.artifacts = Append(@,
                      [type |-> "branch", mode |-> "manual_pr",
                       head |-> req.headBranch]),
                          !.prRequests[r].artifact = Len(s.artifacts) + 1],
                 r, 200, "manual")

\* The response's createPrUrl is that of the artifact recorded in `artifact`.
buildManualPrFallbackResponse(s, r) ==
    LET req == s.prRequests[r]
        existing == manualArtifactIndex(req.latestArtifacts, req.headBranch)
    IN  IF existing # 0
        THEN respond([s EXCEPT !.prRequests[r].artifact = existing], r, 200, "manual")
        ELSE respond([s EXCEPT !.artifacts = Append(@,
                          [type |-> "branch", mode |-> "manual_pr",
                           head |-> req.headBranch]),
                               !.prRequests[r].artifact = Len(s.artifacts) + 1],
                     r, 200, "manual")

\* Variant of afterPush: a missing OAuth token does not stop the provider call.
afterPushNoTokenCheck(s, r, result) ==
    LET req == s.prRequests[r]
        s0 == [s EXCEPT !.prRequests[r].pushResult = result]
        s1 == [s0 EXCEPT !.sessionBranch = req.headBranch,
                         !.prRequests[r].latestArtifacts = s.artifacts]
    IN  IF result # "success" THEN respond(s0, r, 500, "error")
        ELSE IF hasPrArtifact(s1.artifacts) THEN respond(s1, r, 409, "error")
        ELSE IF ~req.hasToken
        THEN [s1 EXCEPT !.prRequests[r].auth = "missing",
                        !.prRequests[r].providerCalled = TRUE,
                        !.prRequests[r].pc = "create_pr"]
        ELSE [s1 EXCEPT !.prRequests[r].pc = "resolve_auth"]

\* Variant of afterPush: the session branch is updated before the push result
\* is looked at.
afterPushBranchFirst(s, r, result) ==
    LET req == s.prRequests[r]
        s0 == [s EXCEPT !.prRequests[r].pushResult = result,
                        !.sessionBranch = req.headBranch]
        s1 == [s0 EXCEPT !.prRequests[r].latestArtifacts = s.artifacts]
    IN  IF result # "success" THEN respond(s0, r, 500, "error")
        ELSE IF hasPrArtifact(s1.artifacts) THEN respond(s1, r, 409, "error")
        ELSE IF ~req.hasToken
        THEN buildManualPrFallbackResponse(
                 [s1 EXCEPT !.prRequests[r].auth = "missing"], r)
        ELSE [s1 EXCEPT !.prRequests[r].pc = "resolve_auth"]

\* handleCreatePR from the return of pushBranchToRemote to its next suspension;
\* result is what pushBranchToRemote returned: "success", "error" or "timeout".
afterPush(s, r, result) ==
    LET req == s.prRequests[r]
        s0 == [s EXCEPT !.prRequests[r].pushResult = result]
        s1 == [s0 EXCEPT !.sessionBranch = req.headBranch,
                         !.prRequests[r].latestArtifacts = s.artifacts]
    IN  IF result # "success" THEN respond(s0, r, 500, "error")
        ELSE IF hasPrArtifact(s1.artifacts) THEN respond(s1, r, 409, "error")
        ELSE IF ~req.hasToken
        THEN buildManualPrFallbackResponse(
                 [s1 EXCEPT !.prRequests[r].auth = "missing"], r)
        ELSE [s1 EXCEPT !.prRequests[r].pc = "resolve_auth"]

\* Variant of pushBranchToRemote: registers a resolver even with no sandbox socket.
pushBranchToRemoteAlwaysRegisters(s, r) ==
    LET key == normalizeBranchName(s.prRequests[r].headBranch)
    IN  [s EXCEPT !.pendingPushResolvers = resolverSet(@, key, r),
                  !.pushTimers = Append(@, r),
                  !.prRequests[r].pc = "push_wait",
                  !.fx.pushCall = "registered",
                  !.fx.request = r]

\* pushBranchToRemote up to its await.
pushBranchToRemote(s, r) ==
    LET key == normalizeBranchName(s.prRequests[r].headBranch)
        prev == resolverGet(s.pendingPushResolvers, key)
        s0 == [s EXCEPT !.fx.request = r]
    IN  IF s.sandboxWs = 0
        THEN afterPush([s0 EXCEPT !.fx.pushCall = "immediate",
                                  !.prRequests[r].pushCall = "immediate"], r, "success")
        ELSE [s0 EXCEPT !.pendingPushResolvers = resolverSet(@, key, r),
                        !.pushTimers = Append(@, r),
                        !.prRequests[r].pc = "push_wait",
                        !.prRequests[r].pushSent = safeSend(s.sockets, s.sandboxWs),
                        !.prRequests[r].overwrote = prev,
                        !.prRequests[r].pushCall = "registered",
                        !.fx.pushCall = "registered"]

\* Variant of handlePushEvent: looks the resolver up by the raw branch name.
handlePushEventRawName(s, event) ==
    LET key == event.branchName
        r == resolverGet(s.pendingPushResolvers, key)
        s0 == [s EXCEPT !.fx.eventBranch = event.branchName]
    IN  IF event.branchName = <<>> \/ r = 0 THEN s0
        ELSE afterPush([s0 EXCEPT !.pendingPushResolvers = resolverDelete(@, key),
                                  !.pushTimers = removeTimer(@, r),
                                  !.fx.request = r],
                       r, IF event.type = "push_complete" THEN "success" ELSE "error")

\* handlePushEvent: settle the push registered under the event's branch name.
handlePushEvent(s, event) ==
    LET key == normalizeBranchName(event.branchName)
        r == resolverGet(s.pendingPushResolvers, key)
        s0 == [s EXCEPT !.fx.eventBranch = event.branchName]
    IN  IF event.branchName = <<>> \/ r = 0 THEN s0
        ELSE afterPush([s0 EXCEPT !.pendingPushResolvers = resolverDelete(@, key),
                                  !.pushTimers = removeTimer(@, r),
                                  !.fx.request = r],
                       r, IF event.type = "push_complete" THEN "success" ELSE "error")

\* Variant of handleCreatePR: no check for an existing PR artifact on entry.
handleCreatePRNoArtifactCheck ==
    \E requestedHeadBranch \in RequestedHeadBranches, hasToken \in BOOLEAN :
        /\ Len(prRequests) < MaxPrRequests
        /\ LET r == Len(prRequests) + 1
               s == [Cur("create_pr") EXCEPT !.fx.request = r, !.prRequests = Append(@,
                        [pc |-> "push_auth", status |-> 0, kind |-> "none",
                         requestedHeadBranch |-> requestedHeadBranch,
                         sessionBranchName |-> sessionBranch,
                         hasToken |-> hasToken, headBranch |-> <<>>,
                         latestArtifacts |-> <<>>, pushSent |-> FALSE,
                         pushResult |-> "none", overwrote |-> 0,
                         pushCall |-> "none", auth |-> "none",
                         providerCalled |-> FALSE,
                         initialArtifacts |-> artifacts, artifact |-> 0])]
           IN  IF getProcessingMessage(messages) = 0
               THEN Commit(respond(s, r, 400, "error"))
               ELSE Commit(s)

\* POST /internal/create-pr up to the generatePushAuth call.
handleCreatePR ==
    \E requestedHeadBranch \in RequestedHeadBranches, hasToken \in BOOLEAN :
        /\ Len(prRequests) < MaxPrRequests
        /\ LET r == Len(prRequests) + 1
               s == [Cur("create_pr") EXCEPT !.fx.request = r, !.prRequests = Append(@,
                        [pc |-> "push_auth", status |-> 0, kind |-> "none",
                         requestedHeadBranch |-> requestedHeadBranch,
                         sessionBranchName |-> sessionBranch,
                         hasToken |-> hasToken, headBranch |-> <<>>,
                         latestArtifacts |-> <<>>, pushSent |-> FALSE,
                         pushResult |-> "none", overwrote |-> 0,
                         pushCall |-> "none", auth |-> "none",
                         providerCalled |-> FALSE,
                         initialArtifacts |-> artifacts, artifact |-> 0])]
           IN  IF getProcessingMessage(messages) = 0
               THEN Commit(respond(s, r, 400, "error"))
               ELSE IF hasPrArtifact(artifacts)
               THEN Commit(respond(s, r, 409, "error"))
               ELSE Commit(s)

\* sourceControlProvider.generatePushAuth() settles.
generatePushAuthReturns ==
    \E r \in 1..Len(prRequests), ok \in BOOLEAN :
        /\ prRequests[r].pc = "push_auth"
        /\ IF ok
           THEN Commit([Cur("push_auth") EXCEPT !.prRequests[r].pc = "get_repo"])
           ELSE Commit(respond(Cur("push_auth"), r, 500, "error"))

\* sourceControlProvider.getRepository() settles; then the push starts.
getRepositoryReturns ==
    \E r \in 1..Len(prRequests), ok \in BOOLEAN :
        /\ prRequests[r].pc = "get_repo"
        /\ IF ok
           THEN Commit(pushBranchToRemote(
                    [Cur("get_repo") EXCEPT !.prRequests[r].headBranch =
                        resolveHeadBranchForPr(prRequests[r].requestedHeadBranch,
                                               prRequests[r].sessionBranchName,
                                               GeneratedHeadBranch)], r))
           ELSE Commit(respond(Cur("get_repo"), r, 500, "error"))

\* A push_complete or push_error event from the sandbox.
handleSandboxPushEvent ==
    \E type \in {"push_complete", "push_error"}, branchName \in EventBranchNames :
        Commit(broadcast(handlePushEvent(
                [Cur(type) EXCEPT !.fx.eventsCreated = @ + 1],
                [type |-> type, branchName |-> branchName])))

\* The 180 s timer of the oldest waiting push fires.
pushTimeout ==
    /\ pushTimers # <<>>
    /\ LET r == Head(pushTimers)
           key == normalizeBranchName(prRequests[r].headBranch)
           s == [Cur("push_timeout") EXCEPT !.pushTimers = Tail(@), !.fx.request = r]
       IN  IF resolverHas(pendingPushResolvers, key)
           THEN Commit(afterPush(
                    [s EXCEPT !.pendingPushResolvers = resolverDelete(@, key)],
                    r, "timeout"))
           ELSE Commit(s)

\* resolvePromptingUserAuthForPR settles (token refresh and decryption).
resolveAuthReturns ==
    \E r \in 1..Len(prRequests), usable \in BOOLEAN :
        /\ prRequests[r].pc = "resolve_auth"
        /\ IF usable
           THEN Commit([Cur("resolve_auth") EXCEPT !.prRequests[r].pc = "create_pr",
                                                  !.prRequests[r].auth = "usable",
                                                  !.prRequests[r].providerCalled = TRUE])
           ELSE Commit(buildManualPrFallbackResponse(
                    [Cur("resolve_auth") EXCEPT !.prRequests[r].auth = "unusable"], r))

\* sourceControlProvider.createPullRequest() settles.
createPullRequestReturns ==
    \E r \in 1..Len(prRequests), ok \in BOOLEAN :
        /\ prRequests[r].pc = "create_pr"
        /\ IF ok
           THEN Commit(respond(
                    [Cur("provider_create_pr") EXCEPT !.artifacts = Append(@,
                        [type |-> "pr", mode |-> "pr",
                         head |-> prRequests[r].headBranch]),
                                                      !.prRequests[r].artifact =
                                                          Len(artifacts) + 1],
                    r, 200, "pr"))
           ELSE Commit(respond(Cur("provider_create_pr"), r, 500, "error"))

Next ==
    \/ handleEnqueuePrompt
    \/ handlePromptMessage
    \/ handleStop
    \/ handleSandboxEvent
    \/ handleSandboxWebSocketUpgrade
    \/ webSocketClose
    \/ SocketBreaks

Spec == Init /\ [][Next]_vars

\* The create-PR route with the queue and socket handlers it depends on.
NextPR ==
    \/ (Len(messages) < MaxPrMessages /\ handleEnqueuePrompt)
    \/ (Len(sockets) < MaxPrSockets /\ handleSandboxWebSocketUpgrade)
    \/ webSocketClose
    \/ handleStop
    \/ handleCreatePR
    \/ generatePushAuthReturns
    \/ getRepositoryReturns
    \/ handleSandboxPushEvent
    \/ pushTimeout
    \/ resolveAuthReturns
    \/ createPullRequestReturns

SpecPR == Init /\ [][NextPR]_vars

\* The push coordinator as create-PR drives it.
NextPush ==
    \/ (Len(messages) < MaxPrMessages /\ handleEnqueuePrompt)
    \/ (Len(sockets) < MaxPrSockets /\ handleSandboxWebSocketUpgrade)
    \/ webSocketClose
    \/ handleCreatePR
    \/ generatePushAuthReturns
    \/ getRepositoryReturns
    \/ handleSandboxPushEvent
    \/ pushTimeout
    \/ resolveAuthReturns
    \/ createPullRequestReturns

SpecPush == Init /\ [][NextPush]_vars

\* Fairness: an armed push timer fires.
FairSpecPush == SpecPush /\ WF_vars(pushTimeout)

\* Client sockets: connect, subscribe, identity recovery, frames.
NextClients ==
    \/ onConnect
    \/ handleSubscribe
    \/ hibernate
    \/ handleClientMessage
    \/ onClose
    \/ handleSandboxWebSocketUpgrade

SpecClients == Init /\ [][NextClients]_vars

\* Sandbox events of every type, with clients listening.
NextEvents ==
    \/ onConnect
    \/ handleSubscribe
    \/ handleEnqueuePrompt
    \/ handleSandboxWebSocketUpgrade
    \/ handleSandboxEvent
    \/ handleSandboxStreamEvent
    \/ handleSandboxPushEvent

SpecEvents == Init /\ [][NextEvents]_vars

\* The requests that create or update Participant rows.
NextParticipants ==
    \/ handleAddParticipant
    \/ handleGenerateWsToken
    \/ (Len(messages) < MaxPrMessages /\ handleEnqueuePromptOfUser)
    \/ (Len(messages) < MaxPrMessages /\ handlePromptMessage)

SpecParticipants == Init /\ [][NextParticipants]_vars

\* The two paginated list routes.
NextPages ==
    \/ handleListEvents
    \/ handleListMessages

SpecPages == Init /\ [][NextPages]_vars

\* Frames of client and sandbox sockets, well-formed or not.
NextFrames ==
    \/ onConnect
    \/ handleSubscribe
    \/ handleClientMessage
    \/ handleClientMessageOther
    \/ handleSandboxMessageMalformed
    \/ handleSandboxWebSocketUpgrade
    \/ handleEnqueuePrompt

SpecFrames == Init /\ [][NextFrames]_vars

\* HTTP requests with and without a well-formed body.
NextRoutes ==
    \/ fetchMalformedBody
    \/ handleEnqueuePrompt
    \/ handleStop
    \/ handleSandboxEvent
    \/ handleAddParticipant
    \/ handleSandboxWebSocketUpgrade

SpecRoutes == Init /\ [][NextRoutes]_vars

\* ------------------------------------------------------------------------
\* Secrets (mergeSecrets)

\* Strings are sequences of characters. A JavaScript object with string keys
\* is a sequence of [key, value] entries in insertion order, keys distinct.
toUpperCase(str) ==
    [i \in 1..Len(str) |->
        CASE str[i] = "a" -> "A" [] str[i] = "b" -> "B" [] str[i] = "g" -> "G"
          [] str[i] = "h" -> "H" [] str[i] = "i" -> "I" [] str[i] = "t" -> "T"
          [] OTHER -> str[i]]

normalizeKey(key) == toUpperCase(key)

\* The number of bytes of the UTF-8 encoding of a character; "e_acute" and
\* "euro_sign" stand for U+00E9 and U+20AC.
utf8Bytes(c) ==
    CASE c = "e_acute" -> 2 [] c = "euro_sign" -> 3 [] OTHER -> 1

RECURSIVE encodedLength(_)
encodedLength(str) ==
    IF str = <<>> THEN 0 ELSE utf8Bytes(Head(str)) + encodedLength(Tail(str))

objectHas(obj, key) == \E i \in 1..Len(obj) : obj[i].key = key

objectGet(obj, key) == obj[CHOOSE i \in 1..Len(obj) : obj[i].key = key].value

\* obj[key] = value
objectSet(obj, key, value) ==
    IF objectHas(obj, key)
    THEN [i \in 1..Len(obj) |-> IF obj[i].key = key
                                 THEN [key |-> key, value |-> value] ELSE obj[i]]
    ELSE Append(obj, [key |-> key, value |-> value])

\* for (const [key, value] of Object.entries(source)) merged[normalizeKey(key)] = value
RECURSIVE assignNormalized(_, _)
assignNormalized(merged, source) ==
    IF source = <<>> THEN merged
    ELSE assignNormalized(objectSet(merged, normalizeKey(Head(source).key),
                                    Head(source).value),
                          Tail(source))

RECURSIVE totalBytesOf(_)
totalBytesOf(obj) ==
    IF obj = <<>> THEN 0
    ELSE encodedLength(Head(obj).value) + totalBytesOf(Tail(obj))

\* Variant of mergeSecrets: the global secrets are written last.
mergeSecretsGlobalLast(global, repo, maxCombinedBytes) ==
    LET merged == assignNormalized(assignNormalized(<<>>, repo), global)
        totalBytes == totalBytesOf(merged)
    IN  [merged |-> merged, totalBytes |-> totalBytes,
         exceedsLimit |-> totalBytes > maxCombinedBytes]

mergeSecrets(global, repo, maxCombinedBytes) ==
    LET merged == assignNormalized(assignNormalized(<<>>, global), repo)
        totalBytes == totalBytesOf(merged)
    IN  [merged |-> merged, totalBytes |-> totalBytes,
         exceedsLimit |-> totalBytes > maxCombinedBytes]

\* Largest number of entries of a secrets record.
MaxSecrets == 2

\* Largest byte limit tried.
MaxCombinedBytes == 5

SecretKeys == {<<"a">>, <<"A">>, <<"b">>}

SecretValues == {<<>>, <<"e_acute">>, <<"x", "euro_sign">>}

SecretRecords ==
    {obj \in UNION {[1..n -> [key : SecretKeys, value : SecretValues]] : n \in 0..MaxSecrets} :
        \A i, j \in 1..Len(obj) : obj[i].key = obj[j].key => i = j}

\* One call of mergeSecrets; calls do not depend on each other, so each is
\* made from the initial state.
callMergeSecrets ==
    \E global \in SecretRecords, repo \in SecretRecords,
       maxCombinedBytes \in {0, 2, MaxCombinedBytes} :
        /\ last.op = "none"
        /\ Commit([Cur("mergeSecrets") EXCEPT
                     !.fx.args = [global |-> global, repo |-> repo,
                                  maxCombinedBytes |-> maxCombinedBytes],
                     !.fx.result = mergeSecrets(global, repo, maxCombinedBytes)])

\* ------------------------------------------------------------------------
\* Source control configuration (resolveScmProviderFromEnv)

IsWhitespace(c) == c \in {" ", "\t", "\n"}

\* String.prototype.trim()
RECURSIVE trimWhitespace(_)
trimWhitespace(str) ==
    IF str = <<>> THEN str
    ELSE IF IsWhitespace(Head(str)) THEN trimWhitespace(Tail(str))
    ELSE IF IsWhitespace(str[Len(str)]) THEN trimWhitespace(SubSeq(str, 1, Len(str) - 1))
    ELSE str

\* String.prototype.toLowerCase() on the letters that occur here.
toLowerCaseAscii(str) ==
    [i \in 1..Len(str) |->
        CASE str[i] = "B" -> "b" [] str[i] = "C" -> "c" [] str[i] = "E" -> "e"
          [] str[i] = "G" -> "g" [] str[i] = "H" -> "h" [] str[i] = "I" -> "i"
          [] str[i] = "K" -> "k" [] str[i] = "T" -> "t" [] str[i] = "U" -> "u"
          [] OTHER -> str[i]]

Github == <<"g", "i", "t", "h", "u", "b">>

Bitbucket == <<"b", "i", "t", "b", "u", "c", "k", "e", "t">>

DEFAULT_SCM_PROVIDER == Github

\* Variant of resolveScmProviderFromEnv: the value is not trimmed.
resolveScmProviderFromEnvUntrimmed(value) ==
    LET normalized == IF value.defined THEN toLowerCaseAscii(value.text) ELSE <<>>
    IN  IF normalized = <<>> THEN [threw |-> FALSE, value |-> DEFAULT_SCM_PROVIDER]
        ELSE IF normalized = Github \/ normalized = Bitbucket
        THEN [threw |-> FALSE, value |-> normalized]
        ELSE [threw |-> TRUE, value |-> <<>>]

\* value is [defined, text]; the result is [threw, value], threw standing for
\* SourceControlProviderError.
resolveScmProviderFromEnv(value) ==
    LET normalized == IF value.defined THEN toLowerCaseAscii(trimWhitespace(value.text))
                      ELSE <<>>
    IN  IF normalized = <<>> THEN [threw |-> FALSE, value |-> DEFAULT_SCM_PROVIDER]
        ELSE IF normalized = Github \/ normalized = Bitbucket
        THEN [threw |-> FALSE, value |-> normalized]
        ELSE [threw |-> TRUE, value |-> <<>>]

\* The words an SCM_PROVIDER value is built from here, each with its
\* lower-case form.
ScmWords ==
    {[text |-> <<>>, lower |-> <<>>],
     [text |-> <<"g", "i", "t", "h", "u", "b">>, lower |-> <<"g", "i", "t", "h", "u", "b">>],
     [text |-> <<"G", "i", "t", "H", "u", "b">>, lower |-> <<"g", "i", "t", "h", "u", "b">>],
     [text |-> <<"G", "I", "T", "H", "U", "B">>, lower |-> <<"g", "i", "t", "h", "u", "b">>],
     [text |-> <<"b", "i", "t", "b", "u", "c", "k", "e", "t">>, lower |-> <<"b", "i", "t", "b", "u", "c", "k", "e", "t">>],
     [text |-> <<"B", "i", "t", "B", "u", "c", "k", "e", "t">>, lower |-> <<"b", "i", "t", "b", "u", "c", "k", "e", "t">>],
     [text |-> <<"g", "i", "t", "l", "a", "b">>, lower |-> <<"g", "i", "t", "l", "a", "b">>],
     [text |-> <<"g", "i", "t">>, lower |-> <<"g", "i", "t">>],
     [text |-> <<"g", "i", "t", " ", "h", "u", "b">>, lower |-> <<"g", "i", "t", " ", "h", "u", "b">>],
     [text |-> <<"g", "i", "t", "h", "u", "b", "s">>, lower |-> <<"g", "i", "t", "h", "u", "b", "s">>]}

ScmPadding == {<<>>, <<" ">>, <<"\t", " ">>, <<"\n">>}

\* One call of resolveScmProviderFromEnv, on an unset value or on a word with
\* whitespace before and after it.
callResolveScmProviderFromEnv ==
    \E defined \in BOOLEAN, word \in ScmWords, lead \in ScmPadding, trail \in ScmPadding :
        /\ last.op = "none"
        /\ ~defined => word.text = <<>> /\ lead = <<>> /\ trail = <<>>
        /\ Commit([Cur("resolveScmProviderFromEnv") EXCEPT
                     !.fx.args = [defined |-> defined, word |-> word,
                                  lead |-> lead, trail |-> trail],
                     !.fx.result = resolveScmProviderFromEnv(
                                     [defined |-> defined,
                                      text |-> lead \o word.text \o trail])])

\* ------------------------------------------------------------------------
\* OpenAI tokens (extractOpenAIAccountId)

\* A claim of a JWT payload: absent (undefined or null), a string or a number.
Absent == [kind |-> "absent", str |-> "", num |-> 0]

StringClaim(str) == [kind |-> "string", str |-> str, num |-> 0]

NumberClaim(num) == [kind |-> "number", str |-> "", num |-> num]

\* a ?? b
nullish(a, b) == IF a.kind # "absent" THEN a ELSE b

\* if (accountId): the empty string and 0 are falsy.
truthy(v) ==
    \/ v.kind = "string" /\ v.str # ""
    \/ v.kind = "number" /\ v.num # 0

\* String(accountId), for the numbers that occur here.
toString(v) ==
    IF v.kind = "string" THEN v.str
    ELSE IF v.num = 0 THEN "0" ELSE "7"

Undefined == [defined |-> FALSE, value |-> ""]

\* One pass of the loop body. A token is [shape, top, nested, org]; shape is
\* "empty" (the empty string), "no_dot" (split gives one part), "bad_payload"
\* (atob or JSON.parse throws), "null_payload" (the payload is the JSON value
\* null, so reading a claim throws) or "object"; top, nested and org are
\* payload.chatgpt_account_id, payload["https://api.openai.com/auth"]
\* ?.chatgpt_account_id and payload.organizations?.[0]?.id.
accountIdOfToken(token) ==
    IF token.shape # "object" THEN Undefined
    ELSE LET accountId == nullish(token.top, nullish(token.nested, token.org))
         IN  IF truthy(accountId) THEN [defined |-> TRUE, value |-> toString(accountId)]
             ELSE Undefined

extractOpenAIAccountId(tokens) ==
    LET fromIdToken == accountIdOfToken(tokens.id_token)
    IN  IF fromIdToken.defined THEN fromIdToken
        ELSE accountIdOfToken(tokens.access_token)

TopClaims == {Absent, StringClaim(""), StringClaim("x"), StringClaim("y"),
              NumberClaim(0), NumberClaim(7)}

OtherClaims == {Absent, StringClaim(""), StringClaim("x"), StringClaim("y")}

JwtTokens ==
    [shape : {"object"}, top : TopClaims, nested : OtherClaims, org : OtherClaims]
        \cup [shape : {"empty", "no_dot", "bad_payload", "null_payload"},
              top : {Absent}, nested : {Absent}, org : {Absent}]

\* One call of extractOpenAIAccountId.
callExtractOpenAIAccountId ==
    \E id_token \in JwtTokens, access_token \in JwtTokens :
        /\ last.op = "none"
        /\ Commit([Cur("extractOpenAIAccountId") EXCEPT
                     !.fx.args = [id_token |-> id_token, access_token |-> access_token],
                     !.fx.result = extractOpenAIAccountId(
                                     [id_token |-> id_token,
                                      access_token |-> access_token])])

\* The pure functions, each applied to inputs drawn from bounded sets.
NextFunctions ==
    \/ callMergeSecrets
    \/ callResolveScmProviderFromEnv
    \/ callExtractOpenAIAccountId

SpecFunctions == Init /\ [][NextFunctions]_vars

\* Prompts, stops and the completions the sandbox sends for them.
NextCompletion ==
    \/ handleEnqueuePrompt
    \/ handleSandboxWebSocketUpgrade
    \/ handleStop
    \/ handleSandboxCompletion

SpecCompletion == Init /\ [][NextCompletion]_vars

\* Fairness: a sandbox that was sent the prompt of the processing Message
\* reports its completion. Nothing else happens without an outside event: no
\* handler runs the queue on its own.
FairSpecCompletion ==
    SpecCompletion /\ WF_vars(handleSandboxCompletion /\ last'.handled)

\* The spawn path with its circuit breaker.
NextBreaker ==
    \/ spawnAttempt
    \/ clockTick
    \/ handleSandboxWebSocketUpgrade
    \/ webSocketClose

SpecBreaker == Init /\ [][NextBreaker]_vars

\* The socket lifecycle with its alarms.
NextLifecycle ==
    \/ handleEnqueuePrompt
    \/ handleSandboxWebSocketUpgrade
    \/ webSocketClose
    \/ handleSandboxEvent
    \/ lifecycleAlarm

SpecLifecycle == Init /\ [][NextLifecycle]_vars

\* A sandbox that holds a live socket reports the end of the Message it runs.
SandboxCompletes ==
    /\ sandboxWs # 0
    /\ sockets[sandboxWs] = "open"
    /\ getProcessingMessage(messages) # 0
    /\ \E success \in BOOLEAN :
          Commit(executionComplete(
                  [Cur("execution_complete") EXCEPT
                      !.fx.eventMessageId = getProcessingMessage(messages)],
                  [messageId |-> getProcessingMessage(messages), success |-> success]))

\* Fairness: the runtime delivers the close event of a sandbox socket, and a
\* connected sandbox reports completion of the Message it is running.
FairSpec == Spec /\ WF_vars(webSocketClose) /\ WF_vars(SandboxCompletes)

\* ------------------------------------------------------------------------
\* Properties

Processing == {i \in 1..Len(messages) : messages[i].status = "processing"}
Pending == {i \in 1..Len(messages) : messages[i].status = "pending"}

\* C1: in every reachable state at most one Message has status = processing.
C1_AtMostOneProcessing == Cardinality(Processing) <= 1

\* One Message is processing while a later one waits, and a queue run has just
\* returned at the "already processing" check.
C1_Witness ==
    /\ Len(messages) = 2
    /\ messages[1].status = "processing"
    /\ messages[2].status = "pending"
    /\ last.queueRuns > 0
    /\ last.dispatched = 0

\* C2: prompt commands leave in creation order: when the prompt for M2 has been
\* handed to the sandbox socket, the prompt of every Message M1 created before
\* M2 was handed to it earlier, and no prompt is handed over after that of a
\* Message created later.
C2_FifoDispatch ==
    \A k2 \in 1..Len(dispatchLog) :
        /\ \A m1 \in 1..(dispatchLog[k2].messageId - 1) :
              \E k1 \in 1..(k2 - 1) : dispatchLog[k1].messageId = m1
        /\ \A k1 \in 1..(k2 - 1) :
              dispatchLog[k1].messageId < dispatchLog[k2].messageId

\* Two prompts went out on different sockets (a disconnect lay between them).
C2_Witness ==
    /\ Len(dispatchLog) >= 2
    /\ dispatchLog[1].socket # dispatchLog[2].socket

\* C3 (as claimed): a session has at most one Artifact of type "pr".
C3_AtMostOnePrArtifact ==
    Cardinality({i \in 1..Len(artifacts) : artifacts[i].type = "pr"}) <= 1

\* C4: a Message that stop() found processing is failed in every later state and
\* has had exactly one execution_complete broadcast, whatever the sandbox sends
\* afterwards.
C4_StopIsFinal ==
    \A m \in stoppedIds :
        /\ messages[m].status = "failed"
        /\ execCompleteBroadcasts[m] = 1

\* The sandbox's own completion for a stopped Message has just been handled.
C4_Witness ==
    /\ last.op = "execution_complete"
    /\ last.eventMessageId \in stoppedIds
    /\ last.alreadyStopped

\* C5: the completion callback of a Message is initiated at most once.
C5_NotifyAtMostOnce ==
    \A m \in 1..Len(messages) : callbackNotified[m] <= 1

\* A stopped Message was notified once and its late completion has arrived.
C5_Witness ==
    /\ last.op = "execution_complete"
    /\ last.eventMessageId \in stoppedIds
    /\ callbackNotified[last.eventMessageId] = 1
    /\ \E m \in 1..Len(messages) :
          m \notin stoppedIds /\ callbackNotified[m] = 1

\* C6 (as claimed): a processing Message eventually becomes completed or failed.
C6_ProcessingEventuallyEnds ==
    \A m \in 1..MaxMessages :
        (m <= Len(messages) /\ messages[m].status = "processing")
            ~> (m <= Len(messages) /\ messages[m].status \in {"completed", "failed"})

\* The last dispatch of Message m failed and m is still marked processing.
FailedDispatch(m) ==
    /\ messages[m].status = "processing"
    /\ \E k \in 1..Len(dispatchLog) :
          /\ dispatchLog[k].messageId = m
          /\ ~dispatchLog[k].sent
          /\ \A j \in (k + 1)..Len(dispatchLog) : dispatchLog[j].messageId # m

\* C7 (as claimed): after a failed send, the next trigger that leaves a sandbox
\* socket connected (an accepted connect, an enqueue) dispatches that Message again.
C7_FailedSendRetriedOnTrigger ==
    [][\A m \in 1..Len(messages) :
          (/\ FailedDispatch(m)
           /\ last'.op \in {"connect", "enqueue"}
           /\ sandboxWs' # 0)
          => /\ Len(dispatchLog') = Len(dispatchLog) + 1
             /\ dispatchLog'[Len(dispatchLog')].messageId = m]_vars

\* C8: a Message goes from pending to processing only with a sandbox socket
\* connected; when processNext reaches the socket check (nothing processing, a
\* Message pending) with no socket, it broadcasts sandbox_spawning, requests a
\* spawn and changes no Message status.
C8_DispatchNeedsSocket ==
    [][/\ \A m \in 1..Len(messages) :
             (messages[m].status = "pending" /\ messages'[m].status = "processing")
             => /\ sandboxWs' # 0
                /\ dispatchLog'[Len(dispatchLog')] =
                       [messageId |-> m, socket |-> sandboxWs', sent |-> last'.sent]
       /\ (/\ last'.queueRuns > 0
           /\ sandboxWs' = 0
           /\ getProcessingMessage(messages') = 0
           /\ getNextPendingMessage(messages') # 0)
          => /\ last'.spawning
             /\ last'.spawn
             /\ dispatchLog' = dispatchLog
             /\ \A m \in 1..Len(messages) :
                   messages'[m].status = messages[m].status
                   \/ (last'.handled /\ m = getProcessingMessage(messages))]_vars

\* processNext ran without a socket and deferred to a spawn.
C8_Witness ==
    /\ last.queueRuns > 0
    /\ last.spawning
    /\ sandboxWs = 0
    /\ Pending # {}
    /\ Processing = {}

\* C9: an accepted sandbox connect with Messages pending and none processing
\* runs processNext, which marks the oldest pending Message processing and
\* sends its prompt on the new socket; no Message is created.
C9_ConnectDrainsQueue ==
    [][(/\ last'.op = "connect"
        /\ last'.accepted
        /\ getProcessingMessage(messages) = 0
        /\ getNextPendingMessage(messages) # 0)
       => /\ last'.queueRuns = 1
          /\ messages'[getNextPendingMessage(messages)].status = "processing"
          /\ Len(messages') = Len(messages)
          /\ sandboxWs' = Len(sockets')
          /\ dispatchLog' = Append(dispatchLog,
                 [messageId |-> getNextPendingMessage(messages),
                  socket |-> sandboxWs', sent |-> TRUE])]_vars

\* A connect found a waiting Message and dispatched it.
C9_Witness ==
    /\ last.op = "connect"
    /\ last.accepted
    /\ last.dispatched # 0
    /\ Len(messages) >= 2

\* C10: an execution_complete for a Message that is no longer processing (stop()
\* already failed it, or it already ended) changes
\* no Message status of its own, sends no completion broadcast and no callback,
\* but refreshes the idle timer, triggers a snapshot and runs processNext, which
\* dispatches the oldest pending Message when a socket is connected and nothing
\* is processing.
C10_LateCompletionStillDrains ==
    [][(/\ last'.op = "execution_complete"
        /\ last'.eventMessageId # 0
        /\ messages[last'.eventMessageId].status \in {"completed", "failed"})
       => /\ ~last'.handled
          /\ execCompleteBroadcasts' = execCompleteBroadcasts
          /\ callbackNotified' = callbackNotified
          /\ messages'[last'.eventMessageId] = messages[last'.eventMessageId]
          /\ last'.activity
          /\ last'.inactivityCheck
          /\ last'.snapshot
          /\ last'.queueRuns = 1
          /\ (/\ sandboxWs # 0
              /\ getProcessingMessage(messages) = 0
              /\ getNextPendingMessage(messages) # 0)
             => /\ messages'[getNextPendingMessage(messages)].status = "processing"
                /\ last'.dispatched = getNextPendingMessage(messages)
                /\ dispatchLog' = Append(dispatchLog,
                       [messageId |-> getNextPendingMessage(messages),
                        socket |-> sandboxWs,
                        sent |-> safeSend(sockets, sandboxWs)])]_vars

\* The late completion of a stopped Message dispatched the next one.
C10_Witness ==
    /\ last.op = "execution_complete"
    /\ last.eventMessageId \in stoppedIds
    /\ last.dispatched # 0
    /\ last.dispatched # last.eventMessageId

\* ------------------------------------------------------------------------
\* Push coordinator properties

PushWaiting(r) == r <= Len(prRequests) /\ prRequests[r].pc = "push_wait"

\* C11 (as claimed): every pushBranch call made with a sandbox socket connected
\* eventually returns (success, error or timeout).
C11_PushEventuallyReturns ==
    \A r \in 1..MaxPrRequests :
        PushWaiting(r) ~> (r <= Len(prRequests) /\ prRequests[r].pc # "push_wait")

\* Request r registered its resolver over the pending resolver of request o.
Overwrote(r, o) == r <= Len(prRequests) /\ prRequests[r].overwrote = o

\* C12 (as claimed): after a second push overwrote the first's resolver, a push
\* event settles only the second caller, and the first caller returns a timeout
\* error when its own timer fires.
C12_OverwrittenCallerTimesOut ==
    [][\A o \in 1..Len(prRequests) :
          (PushWaiting(o) /\ \E r \in 1..Len(prRequests) : Overwrote(r, o))
          => /\ (last'.op \in {"push_complete", "push_error"})
                   => prRequests'[o] = prRequests[o]
             /\ (last'.op = "push_timeout" /\ last'.request = o)
                   => /\ prRequests'[o].pc = "done"
                      /\ prRequests'[o].pushResult = "timeout"]_vars

\* The event's branch name and a registered branch name are equal after
\* trimming whitespace and lower-casing both.
SameBranch(eventName, registered) ==
    \/ eventName = registered
    \/ (eventName = <<"F", " ">> /\ registered = <<"f">>)

\* C13: a push_complete / push_error settles exactly the pending push whose
\* registered branch equals the event's branch after trim + lower-case of both
\* (success for push_complete, error for push_error) and removes its resolver;
\* an event that matches no pending push settles nothing.
C13_PushEventMatchesNormalized ==
    [][(last'.op \in {"push_complete", "push_error"})
       => /\ \A e \in pendingPushResolvers :
                IF SameBranch(last'.eventBranch, prRequests[e.req].headBranch)
                THEN /\ prRequests'[e.req].pushResult =
                           (IF last'.op = "push_complete" THEN "success" ELSE "error")
                     /\ prRequests'[e.req].pc # "push_wait"
                     /\ e \notin pendingPushResolvers'
                ELSE /\ prRequests'[e.req] = prRequests[e.req]
                     /\ e \in pendingPushResolvers'
          /\ (\A e \in pendingPushResolvers :
                  ~SameBranch(last'.eventBranch, prRequests[e.req].headBranch))
             => /\ prRequests' = prRequests
                /\ pendingPushResolvers' = pendingPushResolvers
                /\ artifacts' = artifacts
                /\ sessionBranch' = sessionBranch]_vars

\* The event "F " has just settled, with success, a push registered for "f".
C13_Witness ==
    /\ last.op = "push_complete"
    /\ last.eventBranch = <<"F", " ">>
    /\ last.request # 0
    /\ prRequests[last.request].headBranch = <<"f">>
    /\ prRequests[last.request].pushResult = "success"

\* C14: pushBranch called with no sandbox socket returns success at once,
\* registers no resolver, arms no timer and sends no push command.
C14_NoSocketPushSucceeds ==
    [][(last'.pushCall # "none" /\ sandboxWs = 0)
       => /\ last'.pushCall = "immediate"
          /\ prRequests'[last'.request].pushResult = "success"
          /\ ~prRequests'[last'.request].pushSent
          /\ pendingPushResolvers' = pendingPushResolvers
          /\ pushTimers' = pushTimers]_vars

\* A push returned at once while an earlier push of the session was still pending.
C14_Witness ==
    /\ last.pushCall = "immediate"
    /\ sandboxWs = 0
    /\ prRequests[last.request].pushResult = "success"
    /\ pendingPushResolvers # {}

\* ------------------------------------------------------------------------
\* create-PR properties

\* Request r has just been answered in this step.
Answered(r) ==
    /\ r <= Len(prRequests)
    /\ prRequests[r].pc # "done"
    /\ prRequests'[r].pc = "done"

\* C15 (as claimed): a create-PR whose push ran with no sandbox connection and
\* that succeeds returns a manual-PR result.
C15_NoSandboxFallsBackToManual ==
    \A r \in 1..Len(prRequests) :
        (/\ prRequests[r].pc = "done"
         /\ prRequests[r].pushCall = "immediate"
         /\ prRequests[r].status = 200)
        => prRequests[r].kind = "manual"

\* C15 (amended): with no sandbox connection and no usable OAuth credential of
\* the prompting user, create-PR answers with a manual result whose URL is that
\* of a manual-PR branch artifact for the head branch; when such an artifact
\* already existed on arrival (create-PR called again), the response carries that
\* artifact's URL and no artifact is created.
C15_ManualFallbackReused ==
    [][\A r \in 1..Len(prRequests') :
          (/\ r > Len(prRequests) \/ prRequests[r].pc # "done"
           /\ prRequests'[r].pc = "done"
           /\ prRequests'[r].pushCall = "immediate"
           /\ prRequests'[r].auth \in {"missing", "unusable"}
           /\ ~hasPrArtifact(prRequests'[r].latestArtifacts))
          => /\ prRequests'[r].status = 200
             /\ prRequests'[r].kind = "manual"
             /\ prRequests'[r].artifact \in 1..Len(artifacts')
             /\ artifacts'[prRequests'[r].artifact] =
                    [type |-> "branch", mode |-> "manual_pr",
                     head |-> prRequests'[r].headBranch]
             /\ getExistingManualBranchArtifact(prRequests'[r].initialArtifacts,
                                                prRequests'[r].headBranch)
                => /\ artifacts' = artifacts
                   /\ prRequests'[r].artifact =
                          manualArtifactIndex(artifacts, prRequests'[r].headBranch)]_vars

\* A second create-PR for the same head branch got the first one's artifact back.
C15_Witness ==
    /\ Len(prRequests) = 2
    /\ Len(artifacts) = 1
    /\ prRequests[1].kind = "manual" /\ prRequests[1].artifact = 1
    /\ prRequests[2].kind = "manual" /\ prRequests[2].artifact = 1
    /\ prRequests[2].pushCall = "immediate"
    /\ prRequests[2].initialArtifacts = artifacts

\* C16: once the push succeeded, the re-check found no PR artifact and the
\* prompting user has no usable OAuth credential, the provider's create-PR API
\* is not called, the answer is a manual result and a manual-PR branch artifact
\* for the head branch exists.
C16_NoCredentialDegradesToManual ==
    \A r \in 1..Len(prRequests) :
        (prRequests[r].auth \in {"missing", "unusable"})
        => /\ prRequests[r].pushResult = "success"
           /\ ~prRequests[r].providerCalled
           /\ prRequests[r].pc = "done"
           /\ prRequests[r].status = 200
           /\ prRequests[r].kind = "manual"
           /\ getExistingManualBranchArtifact(artifacts, prRequests[r].headBranch)

\* A push confirmed by the sandbox was followed by a credential that could not
\* be used (failed refresh or decryption), and the request got a manual result.
C16_Witness ==
    \E r \in 1..Len(prRequests) :
        /\ prRequests[r].pushCall = "registered"
        /\ prRequests[r].pushResult = "success"
        /\ prRequests[r].auth = "unusable"
        /\ prRequests[r].kind = "manual"

\* C17 (as claimed): a create-PR arriving when a "pr" Artifact exists is answered 409.
C17_ExistingPrRejected409 ==
    [][(last'.op = "create_pr" /\ hasPrArtifact(artifacts))
       => /\ prRequests'[last'.request].pc = "done"
          /\ prRequests'[last'.request].status = 409]_vars

\* C17 (amended): a create-PR arriving when a "pr" Artifact exists is rejected,
\* with 409 when a Message is processing and with 400 (no active prompt) when
\* none is; it creates no artifact, registers and sends no push and leaves the
\* session's branch name unchanged.
C17_ExistingPrRejected ==
    [][(last'.op = "create_pr" /\ hasPrArtifact(artifacts))
       => /\ prRequests'[last'.request].pc = "done"
          /\ prRequests'[last'.request].status =
                 (IF getProcessingMessage(messages) # 0 THEN 409 ELSE 400)
          /\ prRequests'[last'.request].kind = "error"
          /\ last'.pushCall = "none"
          /\ artifacts' = artifacts
          /\ sessionBranch' = sessionBranch
          /\ pendingPushResolvers' = pendingPushResolvers
          /\ pushTimers' = pushTimers]_vars

\* A create-PR was answered 409 because of the PR an earlier request created.
C17_Witness ==
    /\ last.op = "create_pr"
    /\ hasPrArtifact(artifacts)
    /\ prRequests[last.request].status = 409
    /\ prRequests[last.request].initialArtifacts = artifacts

\* ------------------------------------------------------------------------
\* Sandbox connection properties

\* C18: a sandbox WebSocket upgrade is accepted only if the Sandbox status is
\* neither stopped nor stale, the X-Sandbox-ID header equals the persisted
\* sandbox id and the bearer token equals the persisted token; with status
\* stopped or stale the answer is 410 whatever the credentials; a rejected
\* upgrade changes neither the sandbox socket nor the Sandbox status.
C18_UpgradeAcceptedOnlyIfAuthentic ==
    [][/\ last'.op = "connect"
          => /\ sandboxStatus \notin {"stopped", "stale"}
             /\ sandbox.modal_sandbox_id # "null"
             /\ last'.sandboxIdHeader = sandbox.modal_sandbox_id
             /\ sandbox.auth_token # "null"
             /\ last'.authHeader = <<"Bearer", sandbox.auth_token>>
       /\ (last'.op \in {"connect", "connect_rejected"}
            /\ sandboxStatus \in {"stopped", "stale"})
          => last'.httpStatus = 410
       /\ last'.op = "connect_rejected"
          => /\ sandboxWs' = sandboxWs
             /\ sandboxStatus' = sandboxStatus
             /\ sockets' = sockets]_vars

\* An upgrade was accepted although no token had been issued for the Sandbox.
C18_Witness ==
    /\ last.op = "connect"
    /\ sandbox.auth_token = "null"
    /\ sandboxWs # 0

\* C19: the Sandbox status moves only along pending -> spawning -> ready ->
\* {stopped, stale}, with re-spawn back to spawning; it becomes ready only from
\* spawning and only through an accepted sandbox connection.
C19_StatusTransitions ==
    [][sandboxStatus' # sandboxStatus
       => \/ sandboxStatus' = "spawning"
          \/ /\ sandboxStatus' = "ready"
             /\ sandboxStatus = "spawning"
             /\ last'.op = "connect"
          \/ /\ sandboxStatus' \in {"stopped", "stale"}
             /\ sandboxStatus = "ready"]_vars

\* The Sandbox went from pending to ready without ever being spawned.
C19_Witness ==
    /\ sandboxStatus = "ready"
    /\ sandbox.auth_token = "null"
    /\ last.op = "connect"

\* The close event of the active sandbox socket is handled in this step.
ActiveSandboxClose ==
    /\ last'.op = "close"
    /\ sandboxWs # 0
    /\ sandboxWs' = 0

\* C20: when the active sandbox socket closes with code 1000 or 1001 the
\* Sandbox status becomes stopped; with any other code the status is unchanged
\* at close time and a disconnect-grace check is scheduled, and the status
\* becomes stale only when that check fires with no sandbox socket reconnected.
C20_CloseCodeDecidesStatus ==
    [][/\ (ActiveSandboxClose /\ last'.closeCode \in {NormalClosure, GoingAway})
          => sandboxStatus' = "stopped"
       /\ (ActiveSandboxClose /\ last'.closeCode \notin {NormalClosure, GoingAway})
          => /\ sandboxStatus' = sandboxStatus
             /\ last'.disconnectCheck
             /\ alarm' = "disconnect"
       /\ (sandboxStatus' = "stale" /\ sandboxStatus # "stale")
          => /\ last'.op = "alarm"
             /\ alarm = "disconnect"
             /\ sandboxWs = 0]_vars

\* The disconnect-grace check fired after an abnormal close and marked the
\* Sandbox stale.
C20_Witness ==
    /\ sandboxStatus = "stale"
    /\ last.op = "alarm"
    /\ sandboxWs = 0
    /\ \E ws \in 1..Len(sockets) : sockets[ws] = "closed"

\* Socket ws is closed by this step.
ClosedNow(ws) ==
    /\ last'.op = "close"
    /\ sockets[ws] # "closed"
    /\ sockets'[ws] = "closed"

\* C21: at most one sandbox socket is active at a time: an accepted sandbox
\* connect makes the new socket the active one and reports whether it displaced
\* another, and the later close of a displaced socket neither clears the
\* current sandbox socket, nor changes the Sandbox status, nor schedules a
\* disconnect check.
C21_DisplacedSocketCloseIgnored ==
    [][/\ last'.op = "connect"
          => /\ sandboxWs' = Len(sockets')
             /\ Len(sockets') = Len(sockets) + 1
             /\ last'.replaced = (sandboxWs # 0)
       /\ \A ws \in 1..Len(sockets) :
             (ClosedNow(ws) /\ ws # sandboxWs)
             => /\ sandboxWs' = sandboxWs
                /\ sandboxStatus' = sandboxStatus
                /\ ~last'.disconnectCheck
                /\ alarm' = alarm]_vars

\* The displaced first socket has closed abnormally while the second one is
\* still the active sandbox socket of a ready Sandbox.
C21_Witness ==
    /\ last.op = "close"
    /\ last.closeCode = AbnormalClosure
    /\ Len(sockets) = 2
    /\ sockets[1] = "closed"
    /\ sockets[2] = "open"
    /\ sandboxWs = 2
    /\ sandboxStatus = "ready"

C23_AtMostOneAlarmPending ==
    scheduledAlarms <= 1

\* Two wake-ups are pending after a sandbox connect followed by an
\* execution_complete event.
C23_Witness ==
    /\ scheduledAlarms = 2
    /\ last.op = "execution_complete"
    /\ last.inactivityCheck

\* C24: once consecutive spawn failures have reached the threshold within the
\* rolling window, every spawn attempt, explicit or warm, ends with the
\* circuit-open error without contacting the provisioning API, until the
\* window has elapsed.
C24_OpenCircuitShortCircuits ==
    [][(/\ last'.op = "spawn_attempt"
        /\ circuitBreaker.failureCount >= CircuitBreakerThreshold
        /\ circuitBreaker.now - circuitBreaker.lastFailureAt < CircuitBreakerWindow)
       => /\ last'.circuitOpen
          /\ ~last'.providerCalled
          /\ ~last'.spawn
          /\ sandboxStatus' = sandboxStatus
          /\ sandbox' = sandbox
          /\ circuitBreaker' = circuitBreaker]_vars

\* A warm spawn was refused by the open circuit.
C24_Witness ==
    /\ last.op = "spawn_attempt"
    /\ last.spawnKind = "warm"
    /\ last.circuitOpen
    /\ ~last.providerCalled
    /\ circuitBreaker.failureCount = CircuitBreakerThreshold

\* After the window has elapsed the provisioning API is contacted again.
C24_WindowElapsedWitness ==
    /\ last.op = "spawn_attempt"
    /\ last.providerCalled
    /\ circuitBreaker.now - circuitBreaker.lastFailureAt >= CircuitBreakerWindow
    /\ circuitBreaker.lastFailureAt > 0

\* ------------------------------------------------------------------------
\* Client socket properties

\* The client frame of this step came from a socket with no in-memory identity.
FrameWithoutIdentity(ws) ==
    /\ last'.op = "client_frame"
    /\ last'.clientWs = ws
    /\ clients[ws].cached = "none"

\* C25: when a client socket with no in-memory identity sends a prompt,
\* fetch_history or presence frame: if a persisted mapping exists the identity
\* is rebuilt from it and cached again and the frame is handled as for a
\* subscribed client; if none exists the socket is closed with code 4002 and
\* no Message is created.
C25_IdentityRecoveredOrExpired ==
    [][\A ws \in 1..Len(clients) :
          FrameWithoutIdentity(ws)
          => IF clients[ws].mapping # "none"
             THEN /\ clients'[ws].cached = clients[ws].mapping
                  /\ clients'[ws].state = "open"
                  /\ last'.recovered
                  /\ ~last'.errorFrame
                  /\ last'.frame = "prompt"
                     => /\ Len(messages') = Len(messages) + 1
                        /\ last'.reply = "prompt_queued"
                  /\ last'.frame = "fetch_history" => last'.reply = "history_page"
                  /\ last'.frame = "presence" => <<"client", ws>> \in last'.broadcastTo
             ELSE /\ clients'[ws].state = "closed"
                  /\ clients'[ws].closeCode = SessionExpired
                  /\ messages' = messages
                  /\ participants' = participants
                  /\ last'.broadcastTo = {}]_vars

\* After the in-memory identities were lost, a prompt frame was accepted on the
\* strength of the persisted mapping.
C25_Witness ==
    /\ last.op = "client_frame"
    /\ last.frame = "prompt"
    /\ last.recovered
    /\ Len(messages) > 0
    /\ clients[last.clientWs].cached # "none"

\* A socket that never subscribed was closed with 4002 on its prompt frame.
C25_ExpiredWitness ==
    /\ last.op = "client_frame"
    /\ last.frame = "prompt"
    /\ clients[last.clientWs].closeCode = SessionExpired
    /\ messages = <<>>

\* C26: a broadcast is delivered only to client sockets that are registered
\* and authenticated: the sandbox socket and client sockets that have not
\* completed a successful subscribe never receive a broadcast message.
C26_BroadcastOnlyToAuthenticated ==
    [][\A r \in last'.broadcastTo :
          /\ r[1] = "client"
          /\ r[2] \in 1..Len(clients')
          /\ clients'[r[2]].state = "open"
          /\ clients'[r[2]].mapping # "none"]_vars

\* A broadcast reached the subscribed client and passed over an open client
\* socket that has not subscribed, with a sandbox socket connected.
C26_Witness ==
    /\ sandboxWs # 0
    /\ \E c, d \in 1..Len(clients) :
          /\ last.broadcastTo = {<<"client", c>>}
          /\ clients[d].state = "open"
          /\ clients[d].mapping = "none"
          /\ clients[d].cached = "none"

\* ------------------------------------------------------------------------
\* Sandbox event properties

SandboxEventOps ==
    {"token", "tool_call", "git_sync", "execution_complete", "push_complete", "push_error"}

\* C27: a heartbeat event updates only Sandbox.last_heartbeat: it appends no
\* Event row, is not broadcast to clients and changes no Message status; every
\* other sandbox event appends exactly one Event row.
C27_HeartbeatNotPersisted ==
    [][/\ last'.op = "heartbeat"
          => /\ last' = [NoFx EXCEPT !.op = "heartbeat", !.heartbeat = TRUE]
             /\ UNCHANGED <<messages, sockets, sandboxWs, sandboxStatus, sandbox, alarm,
                            scheduledAlarms, circuitBreaker, clients, participants,
                            dispatchLog, execCompleteBroadcasts, callbackNotified,
                            stoppedIds, sessionBranch, artifacts,
                            pendingPushResolvers, pushTimers, prRequests>>
       /\ last'.op \in SandboxEventOps => last'.eventsCreated = 1]_vars

\* A heartbeat arrived while a Message was processing and a subscribed client
\* was listening.
C27_Witness ==
    /\ last.op = "heartbeat"
    /\ last.heartbeat
    /\ getProcessingMessage(messages) # 0
    /\ authenticatedClients(clients) # {}

\* ------------------------------------------------------------------------
\* Participant properties

\* C28: a ws-token request for an existing participant never replaces a stored
\* access token, refresh token or expiry with null; when the client omits the
\* token fields the stored values are unchanged; a stored token or expiry is
\* replaced by another only when the client sent a token and the stored expiry
\* is null or not later than the client's expiry.
C28_TokensCoalesced ==
    [][last'.op = "ws_token" /\ last'.participant # 0
       => LET old == participants[last'.participant]
              new == participants'[last'.participant]
              body == last'.body
          IN  /\ old.access # "null" => new.access # "null"
              /\ old.refresh # "null" => new.refresh # "null"
              /\ old.expiresAt # 0 => new.expiresAt # 0
              /\ body.access = "null" /\ body.refresh = "null" => new = old
              /\ \/ old.access # "null" /\ new.access # old.access
                 \/ old.refresh # "null" /\ new.refresh # old.refresh
                 \/ old.expiresAt # 0 /\ new.expiresAt # old.expiresAt
                 => /\ body.access # "null" \/ body.refresh # "null"
                    /\ \/ old.expiresAt = 0
                       \/ body.expiresAt # 0 /\ body.expiresAt >= old.expiresAt]_vars

\* A client sent an access token other than the stored one with an earlier
\* expiry, and the stored token was kept.
C28_Witness ==
    /\ last.op = "ws_token"
    /\ last.participant # 0
    /\ last.body.access # "null"
    /\ participants[last.participant].access \notin {"null", last.body.access}
    /\ last.body.expiresAt < participants[last.participant].expiresAt

\* A client sent newer tokens and they replaced the stored ones.
C28_ReplacedWitness ==
    /\ last.op = "ws_token"
    /\ last.participant # 0
    /\ participants[last.participant].access = "t2"
    /\ participants[last.participant].expiresAt = 2
    /\ \E i \in 1..Len(participants) : i # last.participant

\* C29: a session has at most one Participant row per distinct user id.
C29_OneParticipantPerUser ==
    \A i, j \in 1..Len(participants) :
        participants[i].userId = participants[j].userId => i = j

\* Add-participant created a second row for a user who already had one.
C29_Witness ==
    /\ last.op = "add_participant"
    /\ Len(participants) = 2
    /\ participants[1].userId = participants[2].userId

\* ------------------------------------------------------------------------
\* Pagination properties

\* C30: for every value of the limit query parameter (absent, zero, negative,
\* non-numeric or larger than the cap) the page size used by GET /events is at
\* most 200 and the page size used by GET /messages is at most 100, and no
\* response contains more items than that.
C30_PageSizeClamped ==
    /\ last.op = "list_events"
        => /\ ~last.limit.nan
           /\ last.limit.value <= EventsPageCap
           /\ last.items <= EventsPageCap
    /\ last.op = "list_messages"
        => /\ ~last.limit.nan
           /\ last.limit.value <= MessagesPageCap
           /\ last.items <= MessagesPageCap

\* A limit with no leading digit gave a page size that is not a number.
C30_Witness ==
    /\ last.op = "list_events"
    /\ last.limitParam.present
    /\ last.limitParam.value = <<"a">>
    /\ last.limit.nan

\* A negative limit passed the clamp and the response held more items than
\* the cap.
C30_NegativeLimitWitness ==
    /\ last.op = "list_messages"
    /\ last.limitParam.present
    /\ last.limitParam.value = <<"-", "5">>
    /\ last.limit = Num(0 - 5)
    /\ last.items > MessagesPageCap

\* A limit above the cap is clamped to the cap, and the response holds no
\* more items than the cap.
C30_ClampedWitness ==
    /\ last.op = "list_events"
    /\ last.limitParam.present
    /\ last.limitParam.value = <<"2", "5", "0">>
    /\ last.limit = Num(EventsPageCap)
    /\ last.returned = EventsPageCap + 1
    /\ last.hasMore
    /\ last.items = EventsPageCap

\* ------------------------------------------------------------------------
\* Frame handling properties

\* Every variable of the session other than the record of the last step.
sessionVars ==
    <<messages, sockets, sandboxWs, sandboxStatus, sandbox, alarm, scheduledAlarms,
      circuitBreaker, clients, participants, dispatchLog, execCompleteBroadcasts,
      callbackNotified, stoppedIds, sessionBranch, artifacts, pendingPushResolvers,
      pushTimers, prRequests>>

\* C31 (as claimed): a malformed inbound WebSocket frame is answered with an
\* error frame and changes no session state.
C31_MalformedFrameAnswered ==
    [][last'.frame = "malformed"
       => /\ last'.errorFrame
          /\ UNCHANGED sessionVars]_vars

\* C31 (amended): text that does not parse is answered with an error frame when
\* it came from a client socket and is dropped without a reply when it came
\* from a sandbox socket; a frame that is not text is dropped without a reply;
\* none of them changes session state, creates an Event or is broadcast.
C31_MalformedFrameHarmless ==
    [][last'.frame \in {"malformed", "binary"}
       => /\ last'.errorFrame
               <=> (last'.frame = "malformed" /\ last'.op = "client_frame_any")
          /\ last'.eventsCreated = 0
          /\ last'.broadcastTo = {}
          /\ last'.reply = "none"
          /\ UNCHANGED sessionVars]_vars

\* A client sent text that does not parse while a Message was processing and
\* got an error frame.
C31_Witness ==
    /\ last.op = "client_frame_any"
    /\ last.frame = "malformed"
    /\ last.errorFrame
    /\ getProcessingMessage(messages) # 0

\* The sandbox sent text that does not parse while a Message was processing.
C31_SandboxWitness ==
    /\ last.op = "sandbox_frame"
    /\ last.frame = "malformed"
    /\ ~last.errorFrame
    /\ getProcessingMessage(messages) # 0

\* C37: a client socket that has not completed a subscribe and has no
\* persisted mapping cannot change session state: its frames create no
\* Message, change no Message status, send no command to the sandbox and
\* trigger no sandbox spawn.
C37_UnsubscribedClientInert ==
    [][\A ws \in 1..Len(clients) :
          /\ last'.op \in {"client_frame", "client_frame_any"}
          /\ last'.clientWs = ws
          /\ clients[ws].cached = "none"
          /\ clients[ws].mapping = "none"
          => /\ messages' = messages
             /\ ~last'.stopForwarded
             /\ ~last'.spawn
             /\ last'.dispatched = 0]_vars

\* A socket that never subscribed sent a stop frame: the processing Message
\* was failed and the stop command went to the sandbox.
C37_Witness ==
    /\ last.op = "client_frame_any"
    /\ last.frame = "stop"
    /\ last.handled
    /\ last.stopForwarded
    /\ clients[last.clientWs].cached = "none"
    /\ clients[last.clientWs].mapping = "none"

\* A socket that never subscribed sent a typing frame and a sandbox was spawned.
C37_TypingWitness ==
    /\ last.op = "client_frame_any"
    /\ last.frame = "typing"
    /\ last.spawn
    /\ clients[last.clientWs].mapping = "none"

\* ------------------------------------------------------------------------
\* HTTP error properties

\* C32: every error raised inside an HTTP route handler, a malformed request
\* body included, is converted to a JSON error response; none propagates out
\* of the actor's fetch as an uncaught exception.
C32_HandlerErrorsBecomeResponses ==
    last.op = "fetch_malformed"
        => /\ ~last.uncaught
           /\ last.httpStatus >= 400

\* A ws-token request with a malformed body ended in an exception thrown out
\* of fetch, with a Message processing.
C32_Witness ==
    /\ last.op = "fetch_malformed"
    /\ last.route = "ws-token"
    /\ last.uncaught
    /\ getProcessingMessage(messages) # 0

\* An archive request with a malformed body was answered 400.
C32_ArchiveWitness ==
    /\ last.op = "fetch_malformed"
    /\ last.route = "archive"
    /\ last.httpStatus = 400
    /\ ~last.uncaught

\* ------------------------------------------------------------------------
\* Pure function properties

\* The value of the last entry of obj whose key equals upperKey ignoring case.
LastValueFor(obj, upperKey) ==
    obj[CHOOSE i \in 1..Len(obj) :
            /\ toUpperCase(obj[i].key) = upperKey
            /\ \A j \in (i + 1)..Len(obj) : toUpperCase(obj[j].key) # upperKey].value

UpperKeys(obj) == {toUpperCase(obj[i].key) : i \in 1..Len(obj)}

RECURSIVE SumOverKeys(_, _)
SumOverKeys(obj, keys) ==
    IF keys = {} THEN 0
    ELSE LET k == CHOOSE k \in keys : TRUE
         IN  encodedLength(objectGet(obj, k)) + SumOverKeys(obj, keys \ {k})

\* C33: mergeSecrets(global, repo) returns a record keyed by the upper-cased
\* keys of both inputs in which a repo value overrides a global value for keys
\* equal ignoring case; totalBytes is the sum of the byte lengths of the
\* merged values, and exceedsLimit is true exactly when totalBytes is strictly
\* greater than the limit.
C33_MergeSecrets ==
    last.op = "mergeSecrets"
        => LET global == last.args.global
               repo == last.args.repo
               merged == last.result.merged
               keys == {merged[i].key : i \in 1..Len(merged)}
           IN  /\ keys = UpperKeys(global) \cup UpperKeys(repo)
               /\ Cardinality(keys) = Len(merged)
               /\ \A k \in keys :
                     objectGet(merged, k) =
                        IF k \in UpperKeys(repo) THEN LastValueFor(repo, k)
                        ELSE LastValueFor(global, k)
               /\ last.result.totalBytes = SumOverKeys(merged, keys)
               /\ last.result.exceedsLimit
                     <=> last.result.totalBytes > last.args.maxCombinedBytes

\* A repo secret replaced a global one whose key differs only in case, and the
\* total was exactly at the limit.
C33_Witness ==
    /\ last.op = "mergeSecrets"
    /\ last.args.global = <<[key |-> <<"a">>, value |-> <<"x", "euro_sign">>]>>
    /\ last.args.repo = <<[key |-> <<"A">>, value |-> <<"e_acute">>]>>
    /\ last.result.merged = <<[key |-> <<"A">>, value |-> <<"e_acute">>]>>
    /\ last.result.totalBytes = 2
    /\ last.args.maxCombinedBytes = 2
    /\ ~last.result.exceedsLimit

\* C34: resolveScmProviderFromEnv returns github for an unset, empty or
\* whitespace-only value, returns the trimmed lower-cased value when that is
\* github or bitbucket, and throws SourceControlProviderError for every other
\* value.
C34_ResolveScmProvider ==
    last.op = "resolveScmProviderFromEnv"
        => LET word == last.args.word.lower
           IN  IF ~last.args.defined \/ word = <<>>
               THEN last.result = [threw |-> FALSE, value |-> Github]
               ELSE IF word \in {Github, Bitbucket}
               THEN last.result = [threw |-> FALSE, value |-> word]
               ELSE last.result = [threw |-> TRUE, value |-> <<>>]

\* "BitBucket" between a tab and a newline resolved to bitbucket.
C34_Witness ==
    /\ last.op = "resolveScmProviderFromEnv"
    /\ last.args.defined
    /\ last.args.word.lower = Bitbucket
    /\ last.args.word.text # Bitbucket
    /\ last.args.lead = <<"\t", " ">>
    /\ last.args.trail = <<"\n">>
    /\ last.result = [threw |-> FALSE, value |-> Bitbucket]

\* An unknown provider name was refused.
C34_ThrowsWitness ==
    /\ last.op = "resolveScmProviderFromEnv"
    /\ last.args.word.lower \notin {<<>>, Github, Bitbucket}
    /\ last.result.threw

\* A whitespace-only value resolved to the default.
C34_DefaultWitness ==
    /\ last.op = "resolveScmProviderFromEnv"
    /\ last.args.defined
    /\ last.args.word.text = <<>>
    /\ last.args.lead # <<>>
    /\ last.result = [threw |-> FALSE, value |-> Github]

\* The account ids a token holds, in the order of the claim locations.
AccountIdsIn(token) ==
    IF token.shape # "object" THEN <<>>
    ELSE SelectSeq(<<token.top, token.nested, token.org>>, truthy)

\* The first account id of the id_token, else of the access_token.
ExpectedAccountId(tokens) ==
    IF AccountIdsIn(tokens.id_token) # <<>>
    THEN [defined |-> TRUE, value |-> toString(Head(AccountIdsIn(tokens.id_token)))]
    ELSE IF AccountIdsIn(tokens.access_token) # <<>>
    THEN [defined |-> TRUE, value |-> toString(Head(AccountIdsIn(tokens.access_token)))]
    ELSE Undefined

NoFalsyClaim(tokens) ==
    \A token \in {tokens.id_token, tokens.access_token} :
        \A v \in {token.top, token.nested, token.org} :
            v.kind # "absent" => truthy(v)

\* With no empty or zero claim in the tokens the result is the first account
\* id by precedence.
C35_PrecedenceForNonEmptyClaims ==
    last.op = "extractOpenAIAccountId" /\ NoFalsyClaim(last.args)
        => last.result = ExpectedAccountId(last.args)

\* ------------------------------------------------------------------------
\* Completion properties

\* The Message an execution_complete event is the completion of: the one it
\* names, or the one the sandbox sent it for when it names none (0: unknown).
EventOf(fx) == IF fx.eventMessageId # 0 THEN fx.eventMessageId ELSE fx.eventOrigin

\* Message m went to completed or failed in this step.
Finished(m) ==
    /\ messages[m].status \notin {"completed", "failed"}
    /\ messages'[m].status \in {"completed", "failed"}

\* C36: a sandbox execution_complete event changes the status of a Message M
\* only if M is the Message currently processing and the event is the
\* completion of M (completed if success, failed otherwise); the completion of
\* an earlier, already-stopped Message never completes a different Message,
\* whether or not the event carries a messageId.
C36_CompletionOnlyForItsMessage ==
    [][last'.op = "execution_complete" /\ EventOf(last') # 0
       => \A m \in 1..Len(messages) :
             Finished(m)
             => /\ messages[m].status = "processing"
                /\ EventOf(last') = m
                /\ messages'[m].status =
                      (IF last'.success THEN "completed" ELSE "failed")]_vars

\* The completion of a stopped Message, sent without messageId, completed the
\* Message that was dispatched after the stop.
C36_Witness ==
    /\ last.op = "execution_complete"
    /\ last.eventMessageId = 0
    /\ last.eventOrigin = 1
    /\ last.handled
    /\ Len(messages) = 2
    /\ 1 \in stoppedIds
    /\ messages[1].status = "failed"
    /\ messages[2].status = "completed"

\* For events that carry their messageId the claim holds.
C36_CompletionWithMessageId ==
    [][last'.op = "execution_complete" /\ last'.eventMessageId # 0
       => \A m \in 1..Len(messages) :
             Finished(m)
             => /\ messages[m].status = "processing"
                /\ EventOf(last') = m
                /\ messages'[m].status =
                      (IF last'.success THEN "completed" ELSE "failed")]_vars

\* The status changes a Message may make.
StatusMoves ==
    {<<"pending", "processing">>, <<"processing", "completed">>,
     <<"processing", "failed">>}

\* C38: Message status only moves pending -> processing -> {completed,
\* failed}: a completed or failed Message never changes status again, and no
\* Message goes from pending directly to completed or failed, under any
\* sequence of enqueue, stop, execution_complete and sandbox connect events.
C38_StatusOnlyMovesForward ==
    [][\A m \in 1..Len(messages) :
          messages'[m].status # messages[m].status
          => <<messages[m].status, messages'[m].status>> \in StatusMoves]_vars

\* Message 1 completed, Message 2 was stopped, and an execution_complete that
\* names the completed Message 1 has just been handled.
C38_Witness ==
    /\ Len(messages) = 2
    /\ messages[1].status = "completed"
    /\ messages[2].status = "failed"
    /\ 2 \in stoppedIds
    /\ last.op = "execution_complete"
    /\ last.eventMessageId = 1
    /\ last.alreadyStopped

\* An execution_complete that names a Message still pending has just been
\* handled, and the Message is still pending.
C38_PendingWitness ==
    /\ Len(messages) = 2
    /\ messages[1].status = "processing"
    /\ messages[2].status = "pending"
    /\ last.op = "execution_complete"
    /\ last.eventMessageId = 2
    /\ last.alreadyStopped

\* stop() has just failed the processing Message; Message m is the oldest
\* pending one, no Message is processing and the sandbox socket is connected.
StopLeftPending(m) ==
    /\ last.op = "stop"
    /\ last.handled
    /\ m <= Len(messages)
    /\ getProcessingMessage(messages) = 0
    /\ getNextPendingMessage(messages) = m
    /\ sandboxWs # 0
    /\ sockets[sandboxWs] = "open"

\* Message m is no longer pending, or no sandbox socket is connected.
DispatchedOrDisconnected(m) ==
    IF m > Len(messages) THEN FALSE
    ELSE IF messages[m].status # "pending" THEN TRUE
    ELSE IF sandboxWs = 0 THEN TRUE
    ELSE sockets[sandboxWs] # "open"

PushFailed(r) == prRequests[r].pushResult \in {"error", "timeout"}

\* A request whose push failed was answered with an error, recorded no
\* artifact and did not reach the provider's create-PR call.
PushFailedAnswered ==
    \A r \in 1..Len(prRequests) :
        PushFailed(r)
        => /\ prRequests[r].pc = "done"
           /\ prRequests[r].status = 500
           /\ prRequests[r].kind = "error"
           /\ prRequests[r].artifact = 0
           /\ prRequests[r].auth = "none"
           /\ ~prRequests[r].providerCalled

\* C40: if the push step of create-PR fails (push_error or timeout), create-PR
\* returns an error response, creates no artifact of any type, does not call
\* the provider's create-PR API and leaves the session's branch name unchanged.
C40_PushFailureChangesNothing ==
    [][/\ PushFailedAnswered'
       /\ \A r \in 1..Len(prRequests) :
              (~PushFailed(r) /\ PushFailed(r)')
              => /\ artifacts' = artifacts
                 /\ sessionBranch' = sessionBranch
                 /\ last'.op \in {"push_error", "push_timeout"}
                 /\ last'.request = r]_vars

\* A push_error event failed the push of a request whose head branch is not
\* the session's branch: the request got 500 and the session branch stayed.
C40_Witness ==
    /\ last.op = "push_error"
    /\ last.request # 0
    /\ PushFailed(last.request)
    /\ prRequests[last.request].pushResult = "error"
    /\ prRequests[last.request].status = 500
    /\ prRequests[last.request].headBranch # sessionBranch
    /\ artifacts = <<>>

\* The same after the push timer fired.
C40_TimeoutWitness ==
    /\ last.op = "push_timeout"
    /\ last.request # 0
    /\ prRequests[last.request].pushResult = "timeout"
    /\ prRequests[last.request].status = 500
    /\ prRequests[last.request].headBranch # sessionBranch
    /\ artifacts = <<>>

====
